---------------------------- MODULE Spec2Model ----------------------------
(***************************************************************************)
(* Token Acres: the farm simulation engine (FarmEngine), the inventory     *)
(* manager (InventoryManager), the efficiency scorer (EfficiencyScorer)    *)
(* and the static tables they read (ITEM_REGISTRY, CROP_DATA).             *)
(*                                                                         *)
(* Numbers: quantities, durations (ms) and output lengths are integers.    *)
(* The scorer's densities are ratios of integers and are compared by       *)
(* cross-multiplication, which is exact; the durations drawn are whole     *)
(* seconds, for which the floating-point quotients of the code order the   *)
(* same way.                                                               *)
(***************************************************************************)
EXTENDS Integers, Sequences, FiniteSets, TLC

VARIABLES
    invA,        \* an ItemStack[] handed to InventoryManager (the source of a transfer)
    invB,        \* a second ItemStack[] (the destination of a transfer)
    plots,       \* state.farm.plots
    pawns,       \* state.pawns
    economy,     \* state.economy
    stats,       \* state.stats; stats.taskHistory is also the scorer's history
    storehouse,  \* state.storehouse
    seasonAge,   \* whole days from stats.seasonStartDate to now
    timers,      \* the callbacks setTimeout holds, in scheduling order
    appended,    \* every TaskRecord pushed to the history so far, in push order
    calls,       \* how many operations have been called so far
    last         \* the last call made: its name, arguments and result

vars == <<invA, invB, plots, pawns, economy, stats, storehouse, seasonAge,
          timers, appended, calls, last>>

invVars == <<invA, invB>>
farmVars == <<plots, pawns, economy, stats, storehouse, seasonAge, timers, appended>>

Min(a, b) == IF a <= b THEN a ELSE b
Max(a, b) == IF a >= b THEN a ELSE b

RemoveAt(s, i) == SubSeq(s, 1, i - 1) \o SubSeq(s, i + 1, Len(s))

(***************************************************************************)
(* item-registry.ts                                                        *)
(***************************************************************************)
SeedIds ==
    {"turnip_seed", "potato_seed", "strawberry_seed", "tomato_seed", "corn_seed",
     "carrot_seed", "parsnip_seed", "pepper_seed", "pumpkin_seed", "sunflower_seed",
     "appletree_seed", "lemontree_seed"}

CropItemIds ==
    {"turnip", "potato", "strawberry", "tomato", "corn", "melon", "pumpkin",
     "starfruit", "grape", "yam", "sunflower", "carrot", "parsnip", "pepper",
     "apple", "lemon"}

GoldenItemIds ==
    {"golden_turnip", "golden_potato", "golden_strawberry", "golden_tomato",
     "golden_corn", "golden_carrot", "golden_parsnip", "golden_pepper",
     "golden_apple", "golden_lemon"}

\* ITEM_REGISTRY: item id -> maxStack (the one field the engine reads)
ITEM_REGISTRY ==
    [id \in SeedIds \cup CropItemIds \cup GoldenItemIds \cup {"clover"} |->
        IF id \in {"appletree_seed", "lemontree_seed", "pumpkin"} THEN 16
        ELSE IF id \in {"melon", "starfruit"} THEN 32
        ELSE 64]

NoDefinition == [maxStack |-> 0, known |-> FALSE]

\* getItem(itemId): the definition, or undefined
getItem(itemId) ==
    IF itemId \in DOMAIN ITEM_REGISTRY
    THEN [maxStack |-> ITEM_REGISTRY[itemId], known |-> TRUE]
    ELSE NoDefinition

(***************************************************************************)
(* inventory.ts: InventoryManager                                          *)
(***************************************************************************)
\* JavaScript's Infinity as a slot limit: larger than any list the model builds
Infinity == 1000000

Result(inv, success, processed, overflow) ==
    [inv |-> inv, success |-> success, processed |-> processed, overflow |-> overflow]

\* a loop's variables: the inventory it mutates and the quantity still to place
\* or to remove
Loop(inv, remaining) == [inv |-> inv, remaining |-> remaining]

\* the result returned after a loop: success iff nothing remains
LoopResult(loop, quantity) ==
    Result(loop.inv, loop.remaining = 0, quantity - loop.remaining, loop.remaining)

\* the first stack of the item at or after position i that has room, 0 when
\* there is none: the stacks a loop over the list passes without acting
NextWithRoom(inv, i, itemId) ==
    LET Open(j) == inv[j].itemId = itemId /\ inv[j].quantity < inv[j].maxStack
    IN  IF \E j \in i..Len(inv) : Open(j)
        THEN CHOOSE j \in i..Len(inv) : Open(j) /\ \A k \in i..(j - 1) : ~Open(k)
        ELSE 0

\* the last stack of the item at or before position i, 0 when there is none
PrevOfItem(inv, i, itemId) ==
    IF \E j \in 1..i : inv[j].itemId = itemId
    THEN CHOOSE j \in 1..i :
             inv[j].itemId = itemId /\ \A k \in (j + 1)..i : inv[k].itemId # itemId
    ELSE 0

\* FillStacks without the room check: the whole remainder goes on the first
\* stack of the item that has room
FillStacksUncapped(loop, i, itemId) ==
    IF loop.remaining = 0 \/ NextWithRoom(loop.inv, i, itemId) = 0 THEN loop
    ELSE Loop([loop.inv EXCEPT ![NextWithRoom(loop.inv, i, itemId)].quantity =
                                   @ + loop.remaining],
              0)

\* addItem, first loop: fill existing stacks of the item in list order
RECURSIVE FillStacks(_, _, _)
FillStacks(loop, i, itemId) ==
    IF loop.remaining = 0 \/ NextWithRoom(loop.inv, i, itemId) = 0 THEN loop
    ELSE LET j      == NextWithRoom(loop.inv, i, itemId)
             canAdd == Min(loop.remaining, loop.inv[j].maxStack - loop.inv[j].quantity)
         IN  FillStacks(Loop([loop.inv EXCEPT ![j].quantity = @ + canAdd],
                             loop.remaining - canAdd),
                        j + 1, itemId)

\* PushStacks that opens one stack more than the slot limit allows
RECURSIVE PushStacksOneOver(_, _, _, _)
PushStacksOneOver(loop, itemId, maxSlots, maxStack) ==
    IF loop.remaining > 0 /\ Len(loop.inv) <= maxSlots
    THEN PushStacksOneOver(
             Loop(Append(loop.inv, [itemId |-> itemId,
                                    quantity |-> Min(loop.remaining, maxStack),
                                    maxStack |-> maxStack]),
                  loop.remaining - Min(loop.remaining, maxStack)),
             itemId, maxSlots, maxStack)
    ELSE loop

\* addItem, second loop: push new stacks while slots are left
RECURSIVE PushStacks(_, _, _, _)
PushStacks(loop, itemId, maxSlots, maxStack) ==
    IF loop.remaining > 0 /\ Len(loop.inv) < maxSlots
    THEN PushStacks(
             Loop(Append(loop.inv, [itemId |-> itemId,
                                    quantity |-> Min(loop.remaining, maxStack),
                                    maxStack |-> maxStack]),
                  loop.remaining - Min(loop.remaining, maxStack)),
             itemId, maxSlots, maxStack)
    ELSE loop

addItem(inventory, itemId, quantity, maxSlots) ==
    IF quantity <= 0 THEN Result(inventory, TRUE, 0, 0)
    ELSE IF ~getItem(itemId).known THEN Result(inventory, FALSE, 0, quantity)
    ELSE LoopResult(PushStacks(FillStacks(Loop(inventory, quantity), 1, itemId),
                               itemId, maxSlots, getItem(itemId).maxStack),
                    quantity)

\* DrainStacks that stops after the first stack of the item it meets
DrainStacksOnce(loop, i, itemId) ==
    IF PrevOfItem(loop.inv, i, itemId) = 0 THEN loop
    ELSE LET j         == PrevOfItem(loop.inv, i, itemId)
             canRemove == Min(loop.remaining, loop.inv[j].quantity)
             left      == loop.inv[j].quantity - canRemove
         IN  Loop(IF left = 0 THEN RemoveAt(loop.inv, j)
                  ELSE [loop.inv EXCEPT ![j].quantity = left],
                  loop.remaining - canRemove)

\* removeItem's loop: consume from the stacks of the item in reverse list order
RECURSIVE DrainStacks(_, _, _)
DrainStacks(loop, i, itemId) ==
    IF loop.remaining = 0 \/ PrevOfItem(loop.inv, i, itemId) = 0 THEN loop
    ELSE LET j         == PrevOfItem(loop.inv, i, itemId)
             canRemove == Min(loop.remaining, loop.inv[j].quantity)
             left      == loop.inv[j].quantity - canRemove
         IN  DrainStacks(Loop(IF left = 0 THEN RemoveAt(loop.inv, j)
                              ELSE [loop.inv EXCEPT ![j].quantity = left],
                              loop.remaining - canRemove),
                         j - 1, itemId)

removeItem(inventory, itemId, quantity) ==
    IF quantity <= 0 THEN Result(inventory, TRUE, 0, 0)
    ELSE LoopResult(DrainStacks(Loop(inventory, quantity), Len(inventory), itemId),
                    quantity)

\* the reduce of getCount over the stacks lo..hi, summed by halves
RECURSIVE SumQuantities(_, _, _, _)
SumQuantities(inv, itemId, lo, hi) ==
    IF lo > hi THEN 0
    ELSE IF lo = hi
         THEN (IF inv[lo].itemId = itemId THEN inv[lo].quantity ELSE 0)
         ELSE SumQuantities(inv, itemId, lo, (lo + hi) \div 2)
              + SumQuantities(inv, itemId, ((lo + hi) \div 2) + 1, hi)

getCount(inventory, itemId) == SumQuantities(inventory, itemId, 1, Len(inventory))

\* hasSpace's loop: what remains to place once the existing stacks are full
RECURSIVE RoomNeeded(_, _, _, _)
RoomNeeded(inv, i, itemId, remaining) ==
    IF remaining <= 0 \/ NextWithRoom(inv, i, itemId) = 0 THEN remaining
    ELSE LET j == NextWithRoom(inv, i, itemId)
         IN  RoomNeeded(inv, j + 1, itemId,
                        remaining - Min(remaining, inv[j].maxStack - inv[j].quantity))

\* Math.ceil(a / b) for a >= 0, b > 0
CeilDiv(a, b) == (a + b - 1) \div b

\* hasSpace's final test on what the existing stacks leave over
FitsInSlots(remaining, maxStack, availableSlots) ==
    remaining <= 0 \/ CeilDiv(remaining, maxStack) <= availableSlots

\* hasSpace that counts every slot as free
hasSpaceIgnoringUsed(inventory, itemId, quantity, maxSlots) ==
    IF quantity <= 0 THEN TRUE
    ELSE IF ~getItem(itemId).known THEN FALSE
    ELSE FitsInSlots(RoomNeeded(inventory, 1, itemId, quantity),
                     getItem(itemId).maxStack, maxSlots)

\* hasSpace that takes one free slot to be enough for what is left over
hasSpaceOneSlot(inventory, itemId, quantity, maxSlots) ==
    IF quantity <= 0 THEN TRUE
    ELSE IF ~getItem(itemId).known THEN FALSE
    ELSE FitsInSlots(RoomNeeded(inventory, 1, itemId, quantity),
                     quantity, maxSlots - Len(inventory))

hasSpace(inventory, itemId, quantity, maxSlots) ==
    IF quantity <= 0 THEN TRUE
    ELSE IF ~getItem(itemId).known THEN FALSE
    ELSE FitsInSlots(RoomNeeded(inventory, 1, itemId, quantity),
                     getItem(itemId).maxStack, maxSlots - Len(inventory))

XferResult(from, to, success, processed, overflow) ==
    [from |-> from, to |-> to, success |-> success,
     processed |-> processed, overflow |-> overflow]

\* transferAdded that reports the whole request as moved
transferAddedNoOverflow(removeResult, addResult, itemId, quantity, actualQuantity) ==
    IF ~addResult.success
    THEN XferResult(addItem(removeResult.inv, itemId, removeResult.processed,
                            Infinity).inv,
                    addResult.inv, FALSE, 0, quantity)
    ELSE XferResult(removeResult.inv, addResult.inv, TRUE, quantity, 0)

\* transfer once both removeItem and addItem have run: the rollback of a
\* failed add, or the result of the move
transferAdded(removeResult, addResult, itemId, quantity, actualQuantity) ==
    IF ~addResult.success
    THEN XferResult(addItem(removeResult.inv, itemId, removeResult.processed,
                            Infinity).inv,
                    addResult.inv, FALSE, 0, quantity)
    ELSE XferResult(removeResult.inv, addResult.inv, TRUE, addResult.processed,
                    quantity - actualQuantity)

\* transfer once removeItem has run on the source
transferRemoved(removeResult, toInventory, itemId, quantity, actualQuantity, toMaxSlots) ==
    IF ~removeResult.success
    THEN XferResult(removeResult.inv, toInventory, FALSE, 0, quantity)
    ELSE transferAdded(removeResult,
                       addItem(toInventory, itemId, actualQuantity, toMaxSlots),
                       itemId, quantity, actualQuantity)

\* transferClamped that moves without asking hasSpace first
transferClampedUnchecked(fromInventory, toInventory, itemId, quantity, actualQuantity, toMaxSlots) ==
    IF actualQuantity = 0
    THEN XferResult(fromInventory, toInventory, FALSE, 0, quantity)
    ELSE transferRemoved(removeItem(fromInventory, itemId, actualQuantity),
                         toInventory, itemId, quantity, actualQuantity, toMaxSlots)

\* transfer once the quantity is clamped to what the source holds
transferClamped(fromInventory, toInventory, itemId, quantity, actualQuantity, toMaxSlots) ==
    IF actualQuantity = 0
    THEN XferResult(fromInventory, toInventory, FALSE, 0, quantity)
    ELSE IF ~hasSpace(toInventory, itemId, actualQuantity, toMaxSlots)
    THEN XferResult(fromInventory, toInventory, FALSE, 0, quantity)
    ELSE transferRemoved(removeItem(fromInventory, itemId, actualQuantity),
                         toInventory, itemId, quantity, actualQuantity, toMaxSlots)

transfer(fromInventory, toInventory, itemId, quantity, toMaxSlots) ==
    transferClamped(fromInventory, toInventory, itemId, quantity,
                    Min(quantity, getCount(fromInventory, itemId)), toMaxSlots)

getUniqueItems(inventory) ==
    LET firsts == {i \in 1..Len(inventory) :
                      \A j \in 1..(i - 1) : inventory[j].itemId # inventory[i].itemId}
    IN  [k \in 1..Cardinality(firsts) |->
            inventory[CHOOSE i \in firsts :
                          Cardinality({j \in firsts : j <= i}) = k].itemId]


(***************************************************************************)
(* types.ts: CROP_DATA                                                     *)
(***************************************************************************)
Seasons == <<"spring", "summer", "fall", "winter">>

Grades == {"S", "A", "B", "C"}

CropConfig(seasons, stages, tasksPerStage, baseSellValue, regrows) ==
    [seasons |-> seasons, stages |-> stages, tasksPerStage |-> tasksPerStage,
     baseSellValue |-> baseSellValue, regrows |-> regrows]

\* in declaration order (Object.entries order); regrows 0 stands for "not set"
CropOrder ==
    <<"turnip", "potato", "strawberry", "clover", "tomato", "corn", "melon",
      "starfruit", "pumpkin", "grape", "yam", "sunflower">>

CropTypes == {CropOrder[i] : i \in 1..Len(CropOrder)}

CROP_DATA ==
    [t \in CropTypes |->
        CASE t = "turnip"     -> CropConfig({"spring", "fall"}, 4, 1, 5, 0)
          [] t = "potato"     -> CropConfig({"spring"}, 4, 1, 8, 0)
          [] t = "strawberry" -> CropConfig({"spring"}, 5, 1, 15, 1)
          [] t = "clover"     -> CropConfig({"spring", "fall"}, 3, 1, 2, 0)
          [] t = "tomato"     -> CropConfig({"summer"}, 5, 1, 12, 1)
          [] t = "corn"       -> CropConfig({"summer"}, 5, 1, 14, 0)
          [] t = "melon"      -> CropConfig({"summer"}, 4, 2, 20, 0)
          [] t = "starfruit"  -> CropConfig({"summer"}, 6, 2, 50, 0)
          [] t = "pumpkin"    -> CropConfig({"fall"}, 5, 2, 30, 0)
          [] t = "grape"      -> CropConfig({"fall"}, 5, 2, 18, 0)
          [] t = "yam"        -> CropConfig({"fall"}, 4, 1, 10, 0)
          [] t = "sunflower"  -> CropConfig({"fall"}, 5, 1, 12, 0)]

(***************************************************************************)
(* efficiency-scorer.ts: EfficiencyScorer.  The scorer's history is the    *)
(* very array stats.taskHistory (the constructor keeps the reference).     *)
(***************************************************************************)
ColdStartSize == 10
HistoryCap == 50

\* x || 100
OrDefault100(x) == IF x = 0 THEN 100 ELSE x

RECURSIVE CountBelow(_, _, _)
\* how many kept records have a density strictly below num / (denMs / 1000)
CountBelow(history, num, denMs) ==
    IF history = <<>> THEN 0
    ELSE LET h == Head(history)
         IN  (IF h.duration > 0 /\ OrDefault100(h.outputLength) * denMs < num * h.duration
              THEN 1 ELSE 0)
             + CountBelow(Tail(history), num, denMs)

RECURSIVE CountKept(_)
CountKept(history) ==
    IF history = <<>> THEN 0
    ELSE (IF Head(history).duration > 0 THEN 1 ELSE 0) + CountKept(Tail(history))

\* getPercentile(value, sorted) >= threshold, where the percentile is
\* count / length * 100 (50 for an empty list)
PercentileAtLeast(count, length, threshold) ==
    IF length = 0 THEN 50 >= threshold
    ELSE count * 100 >= threshold * length

\* score whose cold start ends one record early
scoreEarly(history, result) ==
    IF result.manual THEN "B"
    ELSE IF Len(history) < ColdStartSize - 1 THEN "B"
    ELSE LET denMs == Max(result.duration, 1000)
             num   == OrDefault100(result.outputLength)
             count == CountBelow(history, num, denMs)
             n     == CountKept(history)
         IN  IF PercentileAtLeast(count, n, 90) THEN "S"
             ELSE IF PercentileAtLeast(count, n, 60) THEN "A"
             ELSE IF PercentileAtLeast(count, n, 30) THEN "B"
             ELSE "C"

\* score whose cold start lasts until 25 records
scoreLateStart(history, result) ==
    IF result.manual THEN "B"
    ELSE IF Len(history) < 25 THEN "B"
    ELSE LET denMs == Max(result.duration, 1000)
             num   == OrDefault100(result.outputLength)
             count == CountBelow(history, num, denMs)
             n     == CountKept(history)
         IN  IF PercentileAtLeast(count, n, 90) THEN "S"
             ELSE IF PercentileAtLeast(count, n, 60) THEN "A"
             ELSE IF PercentileAtLeast(count, n, 30) THEN "B"
             ELSE "C"

\* score(result) on the history; result = [duration, outputLength, manual]
score(history, result) ==
    IF result.manual THEN "B"
    ELSE IF Len(history) < ColdStartSize THEN "B"
    ELSE LET denMs == Max(result.duration, 1000)
             num   == OrDefault100(result.outputLength)
             count == CountBelow(history, num, denMs)
             n     == CountKept(history)
         IN  IF PercentileAtLeast(count, n, 90) THEN "S"
             ELSE IF PercentileAtLeast(count, n, 60) THEN "A"
             ELSE IF PercentileAtLeast(count, n, 30) THEN "B"
             ELSE "C"

\* addRecord that drops the newest record when over the cap
addRecordDropNewest(history, record) ==
    LET pushed == Append(history, record)
    IN  IF Len(pushed) > HistoryCap THEN history ELSE pushed

\* addRecord(record): push, then shift once when over the cap
addRecord(history, record) ==
    LET pushed == Append(history, record)
    IN  IF Len(pushed) > HistoryCap THEN Tail(pushed) ELSE pushed

GradeValue(g) ==
    CASE g = "S" -> 4 [] g = "A" -> 3 [] g = "B" -> 2 [] g = "C" -> 1 [] OTHER -> 2

RECURSIVE SumGrades(_)
SumGrades(records) ==
    IF records = <<>> THEN 0
    ELSE GradeValue(Head(records).grade) + SumGrades(Tail(records))

\* getCurrentEfficiency(): Math.round(((avg - 1) / 3) * 100) over the last 10
getCurrentEfficiency(history) ==
    IF Len(history) = 0 THEN 50
    ELSE LET recent == SubSeq(history, Max(1, Len(history) - 9), Len(history))
             n      == Len(recent)
             sum    == SumGrades(recent)
         IN  (200 * (sum - n) + 3 * n) \div (6 * n)


(***************************************************************************)
(* farm-engine.ts: FarmEngine, private helpers                             *)
(***************************************************************************)
NoCrop ==
    [type |-> "none", stage |-> 0, maxStages |-> 0, quality |-> "B",
     isGolden |-> FALSE, tasksUntilNextStage |-> 0]

NoPlot == [x |-> -1, y |-> -1]

\* agentSessionId: undefined
NoSession == ""

PawnSlots == 5

gradeToActions(grade) ==
    CASE grade = "S" -> 3 [] grade = "A" -> 2 [] grade = "B" -> 1
      [] grade = "C" -> 1 [] OTHER -> 1

gradeToMood(grade) ==
    CASE grade = "S" -> "ecstatic" [] grade = "A" -> "happy"
      [] grade = "B" -> "neutral" [] grade = "C" -> "tired" [] OTHER -> "neutral"

isInSeason(cropType, season) == season \in CROP_DATA[cropType].seasons

\* find(): the first of the matching indices, 0 when there is none
FirstIndex(matching) ==
    IF matching = {} THEN 0
    ELSE CHOOSE i \in matching : \A j \in matching : i <= j

getPlot(ps, x, y) == FirstIndex({i \in 1..Len(ps) : ps[i].x = x /\ ps[i].y = y})

findPawn(pw, pawnId) == FirstIndex({i \in 1..Len(pw) : pw[i].id = pawnId})

\* GrowLoop whose guard lets a crop at its last stage move on
RECURSIVE GrowLoopOverrun(_, _, _)
GrowLoopOverrun(crop, soilPenalty, roll) ==
    IF crop.tasksUntilNextStage <= 0 /\ crop.stage <= crop.maxStages
    THEN LET stage == crop.stage + 1
             tasks == IF stage < crop.maxStages
                      THEN crop.tasksUntilNextStage
                           + CROP_DATA[crop.type].tasksPerStage + soilPenalty
                      ELSE crop.tasksUntilNextStage
             gold  == IF stage = crop.maxStages /\ crop.quality = "S" /\ roll
                      THEN TRUE ELSE crop.isGolden
         IN  GrowLoopOverrun([crop EXCEPT !.stage = stage, !.tasksUntilNextStage = tasks,
                                          !.isGolden = gold],
                             soilPenalty, roll)
    ELSE crop

\* GrowLoop that makes the golden roll at every stage transition
RECURSIVE GrowLoopRollsEachStage(_, _, _)
GrowLoopRollsEachStage(crop, soilPenalty, roll) ==
    IF crop.tasksUntilNextStage <= 0 /\ crop.stage < crop.maxStages
    THEN LET stage == crop.stage + 1
             tasks == IF stage < crop.maxStages
                      THEN crop.tasksUntilNextStage
                           + CROP_DATA[crop.type].tasksPerStage + soilPenalty
                      ELSE crop.tasksUntilNextStage
             gold  == IF crop.quality = "S" /\ roll THEN TRUE ELSE crop.isGolden
         IN  GrowLoopRollsEachStage([crop EXCEPT !.stage = stage,
                                                 !.tasksUntilNextStage = tasks,
                                                 !.isGolden = gold],
                                    soilPenalty, roll)
    ELSE crop

\* the number of times the while loop of advanceCrops evaluates
\* Math.random() on one crop: && evaluates it only once the stage is
\* maxStages and the quality S
RECURSIVE GoldenRollCount(_, _)
GoldenRollCount(crop, soilPenalty) ==
    IF crop.tasksUntilNextStage <= 0 /\ crop.stage < crop.maxStages
    THEN LET stage == crop.stage + 1
             tasks == IF stage < crop.maxStages
                      THEN crop.tasksUntilNextStage
                           + CROP_DATA[crop.type].tasksPerStage + soilPenalty
                      ELSE crop.tasksUntilNextStage
         IN  (IF stage = crop.maxStages /\ crop.quality = "S" THEN 1 ELSE 0)
             + GoldenRollCount([crop EXCEPT !.stage = stage,
                                            !.tasksUntilNextStage = tasks],
                               soilPenalty)
    ELSE 0

\* the while loop of advanceCrops on one crop; roll is Math.random() < 0.05
RECURSIVE GrowLoop(_, _, _)
GrowLoop(crop, soilPenalty, roll) ==
    IF crop.tasksUntilNextStage <= 0 /\ crop.stage < crop.maxStages
    THEN LET stage == crop.stage + 1
             tasks == IF stage < crop.maxStages
                      THEN crop.tasksUntilNextStage
                           + CROP_DATA[crop.type].tasksPerStage + soilPenalty
                      ELSE crop.tasksUntilNextStage
             gold  == IF stage = crop.maxStages /\ crop.quality = "S" /\ roll
                      THEN TRUE ELSE crop.isGolden
         IN  GrowLoop([crop EXCEPT !.stage = stage, !.tasksUntilNextStage = tasks,
                                   !.isGolden = gold],
                      soilPenalty, roll)
    ELSE crop

\* advanceCrops(steps); rolls[i] is the golden roll of plot i
advanceCrops(ps, steps, rolls) ==
    [i \in 1..Len(ps) |->
        IF ps[i].type = "planted" /\ ps[i].crop # NoCrop
        THEN LET soilPenalty == IF ps[i].soilHealth < 50 THEN 1 ELSE 0
                 crop == [ps[i].crop EXCEPT !.tasksUntilNextStage = @ - steps]
             IN  [ps[i] EXCEPT !.crop = GrowLoop(crop, soilPenalty, rolls[i])]
        ELSE ps[i]]

\* item-registry.ts: cropToHarvestItem(cropType, isGolden)
cropToHarvestItem(cropType, isGolden) ==
    IF isGolden
    THEN CASE cropType = "turnip" -> "golden_turnip"
           [] cropType = "potato" -> "golden_potato"
           [] cropType = "strawberry" -> "golden_strawberry"
           [] cropType = "tomato" -> "golden_tomato"
           [] cropType = "corn" -> "golden_corn"
           [] cropType = "carrot" -> "golden_carrot"
           [] cropType = "parsnip" -> "golden_parsnip"
           [] cropType = "pepper" -> "golden_pepper"
           [] cropType = "appletree" -> "golden_apple"
           [] cropType = "lemontree" -> "golden_lemon"
           [] OTHER -> cropType
    ELSE CASE cropType = "appletree" -> "apple"
           [] cropType = "lemontree" -> "lemon"
           [] OTHER -> cropType

\* calculateHarvestQuantity, in half units until the final floor
calculateHarvestQuantity(crop, soilHealth) ==
    LET base    == 2
        quality == base + (CASE crop.quality = "S" -> 2 [] crop.quality = "A" -> 1
                             [] OTHER -> 0)
        soil    == IF soilHealth >= 80 THEN quality + 1
                   ELSE IF soilHealth < 30 THEN Max(2, quality - 1)
                   ELSE quality
    IN  IF crop.isGolden THEN Max(1, (soil * 3) \div 4) ELSE Max(1, soil \div 2)

\* calculateSellValue that rounds down
calculateSellValueTruncated(crop, soilHealth) ==
    LET baseValue == CROP_DATA[crop.type].baseSellValue
        quality   == CASE crop.quality = "S" -> 15 [] crop.quality = "A" -> 12
                       [] crop.quality = "B" -> 10 [] crop.quality = "C" -> 7
        golden    == IF crop.isGolden THEN 3 ELSE 1
        soil      == IF soilHealth >= 80 THEN 12
                     ELSE IF soilHealth < 30 THEN 8 ELSE 10
    IN  (baseValue * quality * golden * soil) \div 100

\* calculateSellValue: Math.round of base * quality * golden * soil multipliers
calculateSellValue(crop, soilHealth) ==
    LET baseValue == CROP_DATA[crop.type].baseSellValue
        quality   == CASE crop.quality = "S" -> 15 [] crop.quality = "A" -> 12
                       [] crop.quality = "B" -> 10 [] crop.quality = "C" -> 7
        golden    == IF crop.isGolden THEN 3 ELSE 1
        soil      == IF soilHealth >= 80 THEN 12
                     ELSE IF soilHealth < 30 THEN 8 ELSE 10
    IN  (baseValue * quality * golden * soil + 50) \div 100

\* the soil after a harvest, without the floor
DegradeSoilNoFloor(soilHealth) == soilHealth - 10

\* Math.max(0, plot.soilHealth - 10)
DegradeSoil(soilHealth) == Max(0, soilHealth - 10)

\* HarvestPlot that clears the crop and leaves the plot's type as it was
HarvestPlotKeepType(plot) ==
    LET cropData == CROP_DATA[plot.crop.type]
    IN  IF cropData.regrows > 0
        THEN [plot EXCEPT !.crop = [@ EXCEPT
                              !.stage = cropData.stages - cropData.regrows,
                              !.tasksUntilNextStage = cropData.tasksPerStage,
                              !.isGolden = FALSE]]
        ELSE [plot EXCEPT !.crop = NoCrop]

\* HarvestPlot that leaves a regrowing crop at its last stage
HarvestPlotNoReset(plot) ==
    LET cropData == CROP_DATA[plot.crop.type]
    IN  IF cropData.regrows > 0
        THEN [plot EXCEPT !.crop = [@ EXCEPT
                              !.tasksUntilNextStage = cropData.tasksPerStage,
                              !.isGolden = FALSE]]
        ELSE [plot EXCEPT !.crop = NoCrop, !.type = "tilled"]

\* the plot once its crop is harvested: the crop set back to regrow, or
\* removed and the plot tilled
HarvestPlot(plot) ==
    LET cropData == CROP_DATA[plot.crop.type]
    IN  IF cropData.regrows > 0
        THEN [plot EXCEPT !.crop = [@ EXCEPT
                              !.stage = cropData.stages - cropData.regrows,
                              !.tasksUntilNextStage = cropData.tasksPerStage,
                              !.isGolden = FALSE]]
        ELSE [plot EXCEPT !.crop = NoCrop, !.type = "tilled"]

\* processHarvests, the loop over the plots from index i on
RECURSIVE HarvestLoop(_, _, _, _, _)
HarvestLoop(ps, i, inventory, capacity, totalSeeds) ==
    IF i > Len(ps)
    THEN [plots |-> ps, inventory |-> inventory, totalSeeds |-> totalSeeds]
    ELSE IF ps[i].type = "planted" /\ ps[i].crop # NoCrop
            /\ ps[i].crop.stage >= ps[i].crop.maxStages
         THEN LET crop      == ps[i].crop
                  itemId    == cropToHarvestItem(crop.type, crop.isGolden)
                  quantity  == calculateHarvestQuantity(crop, ps[i].soilHealth)
                  stored    == IF quantity > 0
                               THEN addItem(inventory, itemId, quantity, capacity).inv
                               ELSE inventory
                  sellValue == calculateSellValue(crop, ps[i].soilHealth)
                  soil      == DegradeSoil(ps[i].soilHealth)
                  plot      == HarvestPlot([ps[i] EXCEPT !.soilHealth = soil])
              IN  HarvestLoop([ps EXCEPT ![i] = plot], i + 1, stored, capacity,
                              totalSeeds + sellValue)
         ELSE HarvestLoop(ps, i + 1, inventory, capacity, totalSeeds)

\* the plots the loop of processHarvests harvests: planted, with a crop at its
\* last stage
HarvestReady(ps) ==
    {i \in 1..Len(ps) : /\ ps[i].type = "planted" /\ ps[i].crop # NoCrop
                        /\ ps[i].crop.stage >= ps[i].crop.maxStages}

\* processHarvests whose loop starts at the last plot that is ready
processHarvestsLastOnly(ps, store, eco) ==
    LET ready == HarvestReady(ps)
        start == IF ready = {} THEN 1
                 ELSE CHOOSE i \in ready : \A j \in ready : j <= i
        h == HarvestLoop(ps, start, store.inventory, store.capacity, 0)
    IN  [plots      |-> h.plots,
         storehouse |-> [store EXCEPT !.inventory = h.inventory],
         economy    |-> IF h.totalSeeds > 0
                        THEN [eco EXCEPT !.seeds = @ + h.totalSeeds,
                                         !.totalEarned = @ + h.totalSeeds]
                        ELSE eco,
         totalSeeds |-> h.totalSeeds]

\* processHarvests(): the plots, storehouse inventory and economy after it
processHarvests(ps, store, eco) ==
    LET h == HarvestLoop(ps, 1, store.inventory, store.capacity, 0)
    IN  [plots      |-> h.plots,
         storehouse |-> [store EXCEPT !.inventory = h.inventory],
         economy    |-> IF h.totalSeeds > 0
                        THEN [eco EXCEPT !.seeds = @ + h.totalSeeds,
                                         !.totalEarned = @ + h.totalSeeds]
                        ELSE eco,
         totalSeeds |-> h.totalSeeds]


\* the quality a crop gets from an efficiency of 0..100
QualityOf(efficiency) ==
    IF efficiency >= 80 THEN "S" ELSE IF efficiency >= 60 THEN "A"
    ELSE IF efficiency >= 40 THEN "B" ELSE "C"

\* the soil-adjusted quality of plantCropFree and pawnPlantSeed
SoilAdjustedQuality(efficiency, soilHealth) ==
    LET soilBonus == IF soilHealth > 70 THEN 10
                     ELSE IF soilHealth < 30 THEN -20 ELSE 0
    IN  QualityOf(Max(0, Min(100, efficiency + soilBonus)))

NewCrop(cropType, quality) ==
    [type |-> cropType, stage |-> 0, maxStages |-> CROP_DATA[cropType].stages,
     quality |-> quality, isGolden |-> FALSE,
     tasksUntilNextStage |-> CROP_DATA[cropType].tasksPerStage]

UnbindDelay == 3
AutoPlantDelay == 2

UnbindTimer(pawn, session) ==
    [kind |-> "unbind", pawn |-> pawn, session |-> session, plot |-> NoPlot,
     remaining |-> UnbindDelay]

AutoPlantTimer(pawn, x, y) ==
    [kind |-> "autoplant", pawn |-> pawn, session |-> NoSession,
     plot |-> [x |-> x, y |-> y], remaining |-> AutoPlantDelay]

\* plantCropFree(plotX, plotY, cropType, pawn): pawn is an index of pw, or 0
plantCropFree(ps, pw, history, season, plotX, plotY, cropType, pawn) ==
    LET i == getPlot(ps, plotX, plotY)
        unchanged == [plots |-> ps, pawns |-> pw, timers |-> <<>>, planted |-> FALSE]
    IN  IF i = 0 \/ ps[i].type # "tilled" THEN unchanged
        ELSE IF ~isInSeason(cropType, season) THEN unchanged
        ELSE LET quality == SoilAdjustedQuality(getCurrentEfficiency(history),
                                                ps[i].soilHealth)
                 plot == [ps[i] EXCEPT !.type = "planted",
                                       !.crop = NewCrop(cropType, quality),
                                       !.soilHealth = Max(0, @ - 5)]
             IN  [plots   |-> [ps EXCEPT ![i] = plot],
                  pawns   |-> IF pawn = 0 THEN pw
                              ELSE [pw EXCEPT ![pawn].assignedPlot =
                                                  [x |-> plotX, y |-> plotY],
                                              ![pawn].state = "walking"],
                  timers  |-> IF pawn = 0 THEN <<>>
                              ELSE <<AutoPlantTimer(pawn, plotX, plotY)>>,
                  planted |-> TRUE]

\* the in-season crops sorted by baseSellValue (a stable sort of the
\* declaration order), as the list of their positions in CropOrder
InSeasonSorted(season) ==
    LET avail == {k \in 1..Len(CropOrder) : isInSeason(CropOrder[k], season)}
        Before(a, b) ==
            \/ CROP_DATA[CropOrder[a]].baseSellValue < CROP_DATA[CropOrder[b]].baseSellValue
            \/ /\ CROP_DATA[CropOrder[a]].baseSellValue = CROP_DATA[CropOrder[b]].baseSellValue
               /\ a < b
    IN  [n \in 1..Cardinality(avail) |->
            CropOrder[CHOOSE a \in avail :
                          Cardinality({b \in avail : Before(b, a)}) = n - 1]]

\* performAutoPlanting that takes the first tilled plot whatever its soil
performAutoPlantingAnySoil(ps, pw, history, season) ==
    LET IdleUnbound(p) == p.state = "idle" /\ p.agentSessionId = NoSession
        Plantable(p)   == p.type = "tilled" /\ p.crop = NoCrop
        idlePawn       == FirstIndex({i \in 1..Len(pw) : IdleUnbound(pw[i])})
        emptyPlot      == FirstIndex({i \in 1..Len(ps) : Plantable(ps[i])})
        availableCrops == InSeasonSorted(season)
        unchanged == [plots |-> ps, pawns |-> pw, timers |-> <<>>, planted |-> FALSE]
    IN  IF idlePawn = 0 THEN unchanged
        ELSE IF emptyPlot = 0 THEN unchanged
        ELSE IF Len(availableCrops) = 0 THEN unchanged
        ELSE LET cropToPlant ==
                     IF \E n \in 1..Len(availableCrops) : availableCrops[n] = "turnip"
                     THEN "turnip" ELSE availableCrops[1]
             IN  plantCropFree(ps, pw, history, season, ps[emptyPlot].x,
                               ps[emptyPlot].y, cropToPlant, idlePawn)

\* performAutoPlanting()
performAutoPlanting(ps, pw, history, season) ==
    LET IdleUnbound(p) == p.state = "idle" /\ p.agentSessionId = NoSession
        Plantable(p)   == p.type = "tilled" /\ p.crop = NoCrop /\ p.soilHealth > 20
        idlePawn       == FirstIndex({i \in 1..Len(pw) : IdleUnbound(pw[i])})
        emptyPlot      == FirstIndex({i \in 1..Len(ps) : Plantable(ps[i])})
        availableCrops == InSeasonSorted(season)
        unchanged == [plots |-> ps, pawns |-> pw, timers |-> <<>>, planted |-> FALSE]
    IN  IF idlePawn = 0 THEN unchanged
        ELSE IF emptyPlot = 0 THEN unchanged
        ELSE IF Len(availableCrops) = 0 THEN unchanged
        ELSE LET cropToPlant ==
                     IF \E n \in 1..Len(availableCrops) : availableCrops[n] = "turnip"
                     THEN "turnip" ELSE availableCrops[1]
             IN  plantCropFree(ps, pw, history, season, ps[emptyPlot].x,
                               ps[emptyPlot].y, cropToPlant, idlePawn)

\* findPlotForWork(): the plots it may return
WorkablePlots(ps) == {i \in 1..Len(ps) : ps[i].type \in {"planted", "tilled"}}

\* the two pushes of completeTask: stats.taskHistory.push(record) with its
\* shift, then scorer.addRecord(record) on the same array; pushed lists the
\* records pushed, in order
RecordTask(history, record) ==
    LET pushed == Append(history, record)
        window == IF Len(pushed) > HistoryCap THEN Tail(pushed) ELSE pushed
    IN  [history |-> addRecord(window, record), pushed |-> <<record, record>>]

(***************************************************************************)
(* farm-engine.ts: FarmEngine, the public operations                       *)
(***************************************************************************)
Called == calls' = calls + 1

\* completeTask(agent, result).  workPlot is the plot findPlotForWork draws
\* (0 when it is not called or finds none), rolls the golden rolls.
CompleteTask(agentId, duration, outputLength, manual, workPlot, rolls) ==
    LET taskResult == [duration     |-> IF duration = 0 THEN 5000 ELSE duration,
                       outputLength |-> OrDefault100(outputLength),
                       manual       |-> manual]
        grade         == score(stats.taskHistory, taskResult)
        actionsEarned == gradeToActions(grade)
        record == [timestamp     |-> calls + 1,
                   agentId       |-> agentId,
                   duration      |-> taskResult.duration,
                   outputLength  |-> taskResult.outputLength,
                   grade         |-> grade,
                   actionsEarned |-> actionsEarned]
        recorded == RecordTask(stats.taskHistory, record)
        history  == recorded.history
        Bound(p) == p.agentSessionId = agentId
        pawn     == FirstIndex({i \in 1..Len(pawns) : Bound(pawns[i])})
        workable == WorkablePlots(plots)
        pawns1 ==
            IF pawn = 0 THEN pawns
            ELSE [pawns EXCEPT
                    ![pawn].totalTasks = @ + 1,
                    ![pawn].state = IF grade = "S" THEN "celebrating" ELSE "working",
                    ![pawn].mood = gradeToMood(grade),
                    ![pawn].lifetimeEfficiency = getCurrentEfficiency(history),
                    ![pawn].assignedPlot =
                        IF workPlot = 0 THEN @
                        ELSE [x |-> plots[workPlot].x, y |-> plots[workPlot].y]]
        timers1 == IF pawn = 0 THEN timers
                   ELSE Append(timers, UnbindTimer(pawn, agentId))
        plots1  == advanceCrops(plots, actionsEarned, rolls)
        harvest == processHarvests(plots1, storehouse, economy)
        auto    == performAutoPlanting(harvest.plots, pawns1, history,
                                       stats.currentSeason)
    IN  /\ workPlot = (IF pawn = 0 \/ workable = {} THEN 0 ELSE workPlot)
        /\ workPlot \in workable \cup {0}
        /\ pawn # 0 /\ workable # {} => workPlot # 0
        /\ plots' = auto.plots
        /\ pawns' = auto.pawns
        /\ timers' = timers1 \o auto.timers
        /\ storehouse' = harvest.storehouse
        /\ economy' = harvest.economy
        /\ stats' = [stats EXCEPT
                        !.taskHistory = history,
                        !.totalTasksCompleted = @ + 1,
                        !.lifetimeEfficiency = getCurrentEfficiency(history)]
        /\ appended' = appended \o recorded.pushed
        /\ last' = [op |-> "completeTask", agentId |-> agentId, manual |-> manual,
                    grade |-> grade, actionsEarned |-> actionsEarned,
                    seedsEarned |-> harvest.totalSeeds, pawn |-> pawn,
                    autoPlanted |-> auto.planted,
                    harvested |-> HarvestReady(plots1)]
        /\ Called
        /\ UNCHANGED <<invVars, seasonAge>>

\* EfficiencyScorer.addRecord(record), called on the engine's scorer
AddRecord(duration, outputLength, grade) ==
    LET record == [timestamp |-> calls + 1, agentId |-> NoSession,
                   duration |-> duration, outputLength |-> outputLength,
                   grade |-> grade, actionsEarned |-> gradeToActions(grade)]
    IN  /\ stats' = [stats EXCEPT !.taskHistory = addRecord(@, record)]
        /\ appended' = Append(appended, record)
        /\ last' = [op |-> "addRecord"]
        /\ Called
        /\ UNCHANGED <<invVars, plots, pawns, economy, storehouse, seasonAge, timers>>

\* onGitEvent(repo)
OnGitEvent(rolls) ==
    LET harvest == processHarvests(advanceCrops(plots, 1, rolls), storehouse, economy)
    IN  /\ plots' = harvest.plots
        /\ storehouse' = harvest.storehouse
        /\ economy' = harvest.economy
        /\ last' = [op |-> "onGitEvent", seedsEarned |-> harvest.totalSeeds,
                    harvested |-> HarvestReady(advanceCrops(plots, 1, rolls))]
        /\ Called
        /\ UNCHANGED <<invVars, pawns, stats, seasonAge, timers, appended>>

\* processHarvests()
ProcessHarvests ==
    LET harvest == processHarvests(plots, storehouse, economy)
    IN  /\ plots' = harvest.plots
        /\ storehouse' = harvest.storehouse
        /\ economy' = harvest.economy
        /\ last' = [op |-> "processHarvests", seedsEarned |-> harvest.totalSeeds,
                    harvested |-> HarvestReady(plots)]
        /\ Called
        /\ UNCHANGED <<invVars, pawns, stats, seasonAge, timers, appended>>

\* PlantCrop whose seed cost is rounded down
PlantCropFloorCost(plotX, plotY, cropType) ==
    LET i        == getPlot(plots, plotX, plotY)
        seedCost == (CROP_DATA[cropType].baseSellValue * 3) \div 10
        ok == /\ i # 0
              /\ plots[i].type = "tilled"
              /\ isInSeason(cropType, stats.currentSeason)
              /\ economy.seeds >= seedCost
        quality == QualityOf(getCurrentEfficiency(stats.taskHistory))
    IN  /\ IF ok
           THEN /\ economy' = [economy EXCEPT !.seeds = @ - seedCost,
                                              !.totalSpent = @ + seedCost]
                /\ plots' = [plots EXCEPT ![i].type = "planted",
                                          ![i].crop = NewCrop(cropType, quality)]
           ELSE UNCHANGED <<economy, plots>>
        /\ last' = [op |-> "plantCrop", ok |-> ok, x |-> plotX, y |-> plotY,
                    cropType |-> cropType]
        /\ Called
        /\ UNCHANGED <<invVars, pawns, stats, storehouse, seasonAge, timers, appended>>

\* PlantCrop that sells the seed whatever the balance
PlantCropOnCredit(plotX, plotY, cropType) ==
    LET i        == getPlot(plots, plotX, plotY)
        seedCost == CeilDiv(CROP_DATA[cropType].baseSellValue * 3, 10)
        ok == /\ i # 0
              /\ plots[i].type = "tilled"
              /\ isInSeason(cropType, stats.currentSeason)
        quality == QualityOf(getCurrentEfficiency(stats.taskHistory))
    IN  /\ IF ok
           THEN /\ economy' = [economy EXCEPT !.seeds = @ - seedCost,
                                              !.totalSpent = @ + seedCost]
                /\ plots' = [plots EXCEPT ![i].type = "planted",
                                          ![i].crop = NewCrop(cropType, quality)]
           ELSE UNCHANGED <<economy, plots>>
        /\ last' = [op |-> "plantCrop", ok |-> ok, x |-> plotX, y |-> plotY,
                    cropType |-> cropType]
        /\ Called
        /\ UNCHANGED <<invVars, pawns, stats, storehouse, seasonAge, timers, appended>>

\* plantCrop(plotX, plotY, cropType)
PlantCrop(plotX, plotY, cropType) ==
    LET i        == getPlot(plots, plotX, plotY)
        seedCost == CeilDiv(CROP_DATA[cropType].baseSellValue * 3, 10)
        ok == /\ i # 0
              /\ plots[i].type = "tilled"
              /\ isInSeason(cropType, stats.currentSeason)
              /\ economy.seeds >= seedCost
        quality == QualityOf(getCurrentEfficiency(stats.taskHistory))
    IN  /\ IF ok
           THEN /\ economy' = [economy EXCEPT !.seeds = @ - seedCost,
                                              !.totalSpent = @ + seedCost]
                /\ plots' = [plots EXCEPT ![i].type = "planted",
                                          ![i].crop = NewCrop(cropType, quality)]
           ELSE UNCHANGED <<economy, plots>>
        /\ last' = [op |-> "plantCrop", ok |-> ok, x |-> plotX, y |-> plotY,
                    cropType |-> cropType]
        /\ Called
        /\ UNCHANGED <<invVars, pawns, stats, storehouse, seasonAge, timers, appended>>

SeasonLengthDays == 7

\* NextSeason that wraps around one season early
NextSeasonShortYear(season) ==
    LET currentIdx == CHOOSE k \in 1..4 : Seasons[k] = season
    IN  Seasons[(currentIdx % 3) + 1]

NextSeason(season) ==
    LET currentIdx == CHOOSE k \in 1..4 : Seasons[k] = season
    IN  Seasons[(currentIdx % 4) + 1]

\* UpdateSeason that wilts the crops out of the season that ends
UpdateSeasonOldSeason ==
    LET daysPassed == seasonAge
        newSeason  == NextSeason(stats.currentSeason)
        Wilts(p)   == p.crop # NoCrop /\ ~isInSeason(p.crop.type, stats.currentSeason)
    IN  /\ IF daysPassed >= SeasonLengthDays
           THEN /\ stats' = [stats EXCEPT !.daysSinceStart = daysPassed,
                                          !.currentSeason = newSeason]
                /\ seasonAge' = 0
                /\ plots' = [i \in 1..Len(plots) |->
                                IF Wilts(plots[i])
                                THEN [plots[i] EXCEPT !.crop = NoCrop, !.type = "tilled",
                                                      !.soilHealth = Min(100, @ + 5)]
                                ELSE plots[i]]
           ELSE /\ stats' = [stats EXCEPT !.daysSinceStart = daysPassed]
                /\ UNCHANGED <<seasonAge, plots>>
        /\ last' = [op |-> "updateSeason", rotated |-> daysPassed >= SeasonLengthDays]
        /\ Called
        /\ UNCHANGED <<invVars, pawns, economy, storehouse, timers, appended>>

\* updateSeason()
UpdateSeason ==
    LET daysPassed == seasonAge
        newSeason  == NextSeason(stats.currentSeason)
        Wilts(p)   == p.crop # NoCrop /\ ~isInSeason(p.crop.type, newSeason)
    IN  /\ IF daysPassed >= SeasonLengthDays
           THEN /\ stats' = [stats EXCEPT !.daysSinceStart = daysPassed,
                                          !.currentSeason = newSeason]
                /\ seasonAge' = 0
                /\ plots' = [i \in 1..Len(plots) |->
                                IF Wilts(plots[i])
                                THEN [plots[i] EXCEPT !.crop = NoCrop, !.type = "tilled",
                                                      !.soilHealth = Min(100, @ + 5)]
                                ELSE plots[i]]
           ELSE /\ stats' = [stats EXCEPT !.daysSinceStart = daysPassed]
                /\ UNCHANGED <<seasonAge, plots>>
        /\ last' = [op |-> "updateSeason", rotated |-> daysPassed >= SeasonLengthDays]
        /\ Called
        /\ UNCHANGED <<invVars, pawns, economy, storehouse, timers, appended>>

\* the pawn argument of an inventory operation and where find() puts it
SetInventory(pw, i, inventory) == [pw EXCEPT ![i].inventory = inventory]

\* addToStorehouse(itemId, quantity)
AddToStorehouse(itemId, quantity) ==
    LET result == addItem(storehouse.inventory, itemId, quantity, storehouse.capacity)
    IN  /\ storehouse' = [storehouse EXCEPT !.inventory = result.inv]
        /\ last' = [op |-> "addToStorehouse", ok |-> result.success,
                    processed |-> result.processed]
        /\ Called
        /\ UNCHANGED <<invVars, plots, pawns, economy, stats, seasonAge, timers, appended>>

\* removeFromStorehouse(itemId, quantity)
RemoveFromStorehouse(itemId, quantity) ==
    LET result == removeItem(storehouse.inventory, itemId, quantity)
    IN  /\ storehouse' = [storehouse EXCEPT !.inventory = result.inv]
        /\ last' = [op |-> "removeFromStorehouse", ok |-> result.success,
                    processed |-> result.processed]
        /\ Called
        /\ UNCHANGED <<invVars, plots, pawns, economy, stats, seasonAge, timers, appended>>

\* pawnPickup(pawnId, itemId, quantity)
PawnPickup(pawnId, itemId, quantity) ==
    LET i      == findPawn(pawns, pawnId)
        result == addItem(pawns[i].inventory, itemId, quantity, PawnSlots)
    IN  /\ pawns' = IF i = 0 THEN pawns ELSE SetInventory(pawns, i, result.inv)
        /\ last' = [op |-> "pawnPickup", ok |-> i # 0 /\ result.success,
                    processed |-> IF i = 0 THEN 0 ELSE result.processed]
        /\ Called
        /\ UNCHANGED <<invVars, plots, economy, stats, storehouse, seasonAge, timers,
                       appended>>

\* pawnDeposit(pawnId, itemId, quantity)
PawnDeposit(pawnId, itemId, quantity) ==
    LET i      == findPawn(pawns, pawnId)
        result == removeItem(pawns[i].inventory, itemId, quantity)
    IN  /\ pawns' = IF i = 0 THEN pawns ELSE SetInventory(pawns, i, result.inv)
        /\ last' = [op |-> "pawnDeposit", ok |-> i # 0 /\ result.success,
                    processed |-> IF i = 0 THEN 0 ELSE result.processed]
        /\ Called
        /\ UNCHANGED <<invVars, plots, economy, stats, storehouse, seasonAge, timers,
                       appended>>

\* the pawns and the storehouse after a transfer between pawn i's inventory
\* and the storehouse's; bag and store are the two inventories it leaves
Moved(pw, store, i, bag, inventory, result) ==
    [pawns      |-> SetInventory(pw, i, bag),
     storehouse |-> [store EXCEPT !.inventory = inventory],
     ok         |-> result.success,
     processed  |-> result.processed]

NotMoved(pw, store) ==
    [pawns |-> pw, storehouse |-> store, ok |-> FALSE, processed |-> 0]

ToStorehouse(pw, store, i, result) ==
    Moved(pw, store, i, result.from, result.to, result)

FromStorehouse(pw, store, i, result) ==
    Moved(pw, store, i, result.to, result.from, result)

\* transferToStorehouse(pawnId, itemId, quantity) on the given lists
transferToStorehouse(pw, store, pawnId, itemId, quantity) ==
    IF findPawn(pw, pawnId) = 0 THEN NotMoved(pw, store)
    ELSE ToStorehouse(pw, store, findPawn(pw, pawnId),
                      transfer(pw[findPawn(pw, pawnId)].inventory, store.inventory,
                               itemId, quantity, store.capacity))

\* withdrawFromStorehouse(pawnId, itemId, quantity) on the given lists
withdrawFromStorehouse(pw, store, pawnId, itemId, quantity) ==
    IF findPawn(pw, pawnId) = 0 THEN NotMoved(pw, store)
    ELSE FromStorehouse(pw, store, findPawn(pw, pawnId),
                        transfer(store.inventory, pw[findPawn(pw, pawnId)].inventory,
                                 itemId, quantity, PawnSlots))

\* the engine state and the return value an inventory operation leaves
InventoryOp(op, moved) ==
    /\ pawns' = moved.pawns
    /\ storehouse' = moved.storehouse
    /\ last' = [op |-> op, ok |-> moved.ok, processed |-> moved.processed]
    /\ Called
    /\ UNCHANGED <<invVars, plots, economy, stats, seasonAge, timers, appended>>

TransferToStorehouse(pawnId, itemId, quantity) ==
    InventoryOp("transferToStorehouse",
                transferToStorehouse(pawns, storehouse, pawnId, itemId, quantity))

WithdrawFromStorehouse(pawnId, itemId, quantity) ==
    InventoryOp("withdrawFromStorehouse",
                withdrawFromStorehouse(pawns, storehouse, pawnId, itemId, quantity))

\* pawnDepositAll, the loop over the unique item ids from position k on;
\* moved holds the pawns and the storehouse so far
RECURSIVE DepositLoop(_, _, _, _)
DepositLoop(moved, pawnId, uniqueItems, k) ==
    IF k > Len(uniqueItems) THEN moved
    ELSE IF getCount(moved.pawns[findPawn(moved.pawns, pawnId)].inventory,
                     uniqueItems[k]) > 0
    THEN DepositLoop(
             transferToStorehouse(
                 moved.pawns, moved.storehouse, pawnId, uniqueItems[k],
                 getCount(moved.pawns[findPawn(moved.pawns, pawnId)].inventory,
                          uniqueItems[k])),
             pawnId, uniqueItems, k + 1)
    ELSE DepositLoop(moved, pawnId, uniqueItems, k + 1)

\* pawnDepositAll(pawnId) on the given lists
pawnDepositAll(pw, store, pawnId) ==
    IF findPawn(pw, pawnId) = 0 THEN NotMoved(pw, store)
    ELSE [DepositLoop(NotMoved(pw, store), pawnId,
                      getUniqueItems(pw[findPawn(pw, pawnId)].inventory), 1)
             EXCEPT !.ok = TRUE]

PawnDepositAll(pawnId) ==
    InventoryOp("pawnDepositAll", pawnDepositAll(pawns, storehouse, pawnId))

\* itemId.endsWith('_seed'), for the ids an inventory can hold
IsSeed(itemId) == itemId \in SeedIds

\* the stack objects of an inventory, named by their position when the
\* snapshot availableSeeds is taken
Tag(inv) ==
    [i \in 1..Len(inv) |->
        [itemId |-> inv[i].itemId, quantity |-> inv[i].quantity,
         maxStack |-> inv[i].maxStack, ref |-> i]]

Untag(inv) ==
    [i \in 1..Len(inv) |->
        [itemId |-> inv[i].itemId, quantity |-> inv[i].quantity,
         maxStack |-> inv[i].maxStack]]

\* seedStack.quantity of a snapshot object: 0 once it was emptied and spliced
QuantityOfRef(inv, ref) ==
    LET here == {i \in 1..Len(inv) : "ref" \in DOMAIN inv[i] /\ inv[i].ref = ref}
    IN  IF here = {} THEN 0 ELSE inv[CHOOSE i \in here : TRUE].quantity

\* availableSeeds: the storehouse's seed stacks, as the objects they are
AvailableSeeds(inventory) ==
    LET SeedStack(stack) == IsSeed(stack.itemId) /\ stack.quantity > 0
    IN  SelectSeq(Tag(inventory), SeedStack)

\* the loop's variables after one transfer
Withdrawn(w, result) ==
    [store |-> result.from, bag |-> result.to,
     seedsWithdrawn |-> IF result.processed > 0 THEN w.seedsWithdrawn + 1
                        ELSE w.seedsWithdrawn]

\* pawnWithdrawSeeds, the loop over availableSeeds.slice(0, maxSeeds) from
\* position k on; amounts[k] is 2 + Math.floor(Math.random() * 3)
RECURSIVE WithdrawLoop(_, _, _, _, _)
WithdrawLoop(w, snapshot, k, maxSeeds, amounts) ==
    IF k > Min(Len(snapshot), maxSeeds) \/ w.seedsWithdrawn >= maxSeeds THEN w
    ELSE WithdrawLoop(
             Withdrawn(w, transfer(w.store, w.bag, snapshot[k].itemId,
                                   Min(QuantityOfRef(w.store, snapshot[k].ref),
                                       amounts[k]),
                                   PawnSlots)),
             snapshot, k + 1, maxSeeds, amounts)

SeedsMoved(pw, store, i, w) ==
    [pawn           |-> i,
     pawns          |-> SetInventory(pw, i, w.bag),
     storehouse     |-> [store EXCEPT !.inventory = Untag(w.store)],
     ok             |-> w.seedsWithdrawn > 0,
     seedsWithdrawn |-> w.seedsWithdrawn]

\* pawnWithdrawSeeds(pawnId, maxSeeds) on the given lists
pawnWithdrawSeeds(pw, store, pawnId, maxSeeds, amounts) ==
    IF findPawn(pw, pawnId) = 0 \/ Len(AvailableSeeds(store.inventory)) = 0
    THEN [pawn |-> findPawn(pw, pawnId), pawns |-> pw, storehouse |-> store,
          ok |-> FALSE, seedsWithdrawn |-> 0]
    ELSE SeedsMoved(pw, store, findPawn(pw, pawnId),
                    WithdrawLoop([store |-> Tag(store.inventory),
                                  bag |-> pw[findPawn(pw, pawnId)].inventory,
                                  seedsWithdrawn |-> 0],
                                 AvailableSeeds(store.inventory), 1, maxSeeds,
                                 amounts))

\* the engine state and the return value pawnWithdrawSeeds leaves
SeedsOp(maxSeeds, moved) ==
    /\ pawns' = moved.pawns
    /\ storehouse' = moved.storehouse
    /\ last' = [op |-> "pawnWithdrawSeeds", ok |-> moved.ok, pawn |-> moved.pawn,
                seedsWithdrawn |-> moved.seedsWithdrawn, maxSeeds |-> maxSeeds]
    /\ Called
    /\ UNCHANGED <<invVars, plots, economy, stats, seasonAge, timers, appended>>

PawnWithdrawSeeds(pawnId, maxSeeds, amounts) ==
    SeedsOp(maxSeeds, pawnWithdrawSeeds(pawns, storehouse, pawnId, maxSeeds, amounts))

\* seedToCropType(seedItemId): the crop type, or "" for null
seedToCropType(seedItemId) ==
    CASE seedItemId = "carrot_seed" -> "carrot"
      [] seedItemId = "parsnip_seed" -> "parsnip"
      [] seedItemId = "potato_seed" -> "potato"
      [] seedItemId = "pepper_seed" -> "pepper"
      [] seedItemId = "tomato_seed" -> "tomato"
      [] seedItemId = "pumpkin_seed" -> "pumpkin"
      [] seedItemId = "sunflower_seed" -> "sunflower"
      [] seedItemId = "appletree_seed" -> "appletree"
      [] seedItemId = "lemontree_seed" -> "lemontree"
      [] seedItemId = "turnip_seed" -> "turnip"
      [] seedItemId = "strawberry_seed" -> "strawberry"
      [] seedItemId = "corn_seed" -> "corn"
      [] OTHER -> ""

\* PawnPlantSeed that plants the seed whatever the season
PawnPlantSeedAnySeason(pawnId, plotX, plotY, seedItemId) ==
    LET i == findPawn(pawns, pawnId)
        j == getPlot(plots, plotX, plotY)
        SeedStack(stack) == IsSeed(stack.itemId) /\ stack.quantity > 0
        availableSeeds == SelectSeq(pawns[i].inventory, SeedStack)
        hasSeed == IF seedItemId # ""
                   THEN getCount(pawns[i].inventory, seedItemId) > 0
                   ELSE Len(availableSeeds) > 0
        seedToUse == IF seedItemId # "" THEN seedItemId ELSE availableSeeds[1].itemId
        cropType  == seedToCropType(seedToUse)
        reached   == i # 0 /\ j # 0 /\ plots[j].type = "tilled" /\ hasSeed
                     /\ cropType # ""
        threw     == reached /\ cropType \notin CropTypes
        removeResult == removeItem(pawns[i].inventory, seedToUse, 1)
        ok == reached /\ ~threw /\ removeResult.success
        quality == SoilAdjustedQuality(getCurrentEfficiency(stats.taskHistory),
                                       plots[j].soilHealth)
    IN  /\ IF ok
           THEN /\ plots' = [plots EXCEPT ![j].type = "planted",
                                          ![j].crop = NewCrop(cropType, quality),
                                          ![j].soilHealth = Max(0, @ - 5)]
                /\ pawns' = [pawns EXCEPT
                                ![i].inventory = removeResult.inv,
                                ![i].assignedPlot = [x |-> plotX, y |-> plotY],
                                ![i].state = "working"]
           ELSE UNCHANGED <<plots, pawns>>
        /\ last' = [op |-> "pawnPlantSeed", ok |-> ok, threw |-> threw,
                    pawn |-> i, x |-> plotX, y |-> plotY, seedItemId |-> seedItemId]
        /\ Called
        /\ UNCHANGED <<invVars, economy, stats, storehouse, seasonAge, timers, appended>>

\* pawnPlantSeed(pawnId, plotX, plotY, seedItemId); seedItemId "" is undefined.
\* CROP_DATA[cropType].seasons throws a TypeError for a crop type that
\* CROP_DATA does not hold: the call ends there, nothing changed.
PawnPlantSeed(pawnId, plotX, plotY, seedItemId) ==
    LET i == findPawn(pawns, pawnId)
        j == getPlot(plots, plotX, plotY)
        SeedStack(stack) == IsSeed(stack.itemId) /\ stack.quantity > 0
        availableSeeds == SelectSeq(pawns[i].inventory, SeedStack)
        hasSeed == IF seedItemId # ""
                   THEN getCount(pawns[i].inventory, seedItemId) > 0
                   ELSE Len(availableSeeds) > 0
        seedToUse == IF seedItemId # "" THEN seedItemId ELSE availableSeeds[1].itemId
        cropType  == seedToCropType(seedToUse)
        reached   == i # 0 /\ j # 0 /\ plots[j].type = "tilled" /\ hasSeed
                     /\ cropType # ""
        threw     == reached /\ cropType \notin CropTypes
        removeResult == removeItem(pawns[i].inventory, seedToUse, 1)
        ok == reached /\ ~threw /\ isInSeason(cropType, stats.currentSeason)
              /\ removeResult.success
        quality == SoilAdjustedQuality(getCurrentEfficiency(stats.taskHistory),
                                       plots[j].soilHealth)
    IN  /\ IF ok
           THEN /\ plots' = [plots EXCEPT ![j].type = "planted",
                                          ![j].crop = NewCrop(cropType, quality),
                                          ![j].soilHealth = Max(0, @ - 5)]
                /\ pawns' = [pawns EXCEPT
                                ![i].inventory = removeResult.inv,
                                ![i].assignedPlot = [x |-> plotX, y |-> plotY],
                                ![i].state = "working"]
           ELSE UNCHANGED <<plots, pawns>>
        /\ last' = [op |-> "pawnPlantSeed", ok |-> ok, threw |-> threw,
                    pawn |-> i, x |-> plotX, y |-> plotY, seedItemId |-> seedItemId]
        /\ Called
        /\ UNCHANGED <<invVars, economy, stats, storehouse, seasonAge, timers, appended>>

namePool ==
    <<"Ada", "Bob", "Cara", "Dan", "Eva", "Finn", "Gwen", "Hal",
      "Ivy", "Jack", "Kate", "Leo", "Mia", "Neo", "Ora", "Pike",
      "Quinn", "Rex", "Sam", "Tess", "Uma", "Vex", "Wade", "Zoe">>

\* generateName that does not leave out the names in use
generateNameAnyOfPool(pw) ==
    IF Len(pw) >= Len(namePool) THEN {"Pawn" \o ToString(Len(pw) + 1)}
    ELSE {namePool[k] : k \in 1..Len(namePool)}

\* generateName(): the names it may return
generateName(pw) ==
    LET usedNames      == {pw[i].name : i \in 1..Len(pw)}
        availableNames == {namePool[k] : k \in 1..Len(namePool)} \ usedNames
    IN  IF availableNames = {} THEN {"Pawn" \o ToString(Len(pw) + 1)}
        ELSE availableNames

\* nextFactionColor whose reduce keeps the later of two equal colours
nextFactionColorLaterOfEquals(pw) ==
    LET Count(c)   == Cardinality({i \in 1..Len(pw) : pw[i].factionColor = c})
        Pick(a, b) == IF Count(a) < Count(b) THEN a ELSE b
    IN  Pick(Pick(Pick("blue", "red"), "purple"), "yellow")

\* nextFactionColor(): the least used colour, the earliest of equals
nextFactionColor(pw) ==
    LET Count(c)   == Cardinality({i \in 1..Len(pw) : pw[i].factionColor = c})
        Pick(a, b) == IF Count(a) <= Count(b) THEN a ELSE b
    IN  Pick(Pick(Pick("blue", "red"), "purple"), "yellow")

\* spawnPawn that never reuses a pawn
SpawnPawnAlwaysNew(agentId, name) ==
    LET pawn == [id |-> "pawn-" \o ToString(calls + 1), name |-> name,
                 factionColor |-> nextFactionColor(pawns), mood |-> "neutral",
                 totalTasks |-> 0, lifetimeEfficiency |-> 0, state |-> "walking",
                 assignedPlot |-> NoPlot, agentSessionId |-> agentId,
                 inventory |-> <<>>]
    IN  /\ name \in generateName(pawns)
        /\ pawns' = Append(pawns, pawn)
        /\ last' = [op |-> "spawnPawn", agentId |-> agentId,
                    pawn |-> Len(pawns) + 1, reused |-> FALSE]
        /\ Called
        /\ UNCHANGED <<invVars, plots, economy, stats, storehouse, seasonAge, timers,
                       appended>>

\* spawnPawn(agent); name is the name generateName draws for a new pawn, and
\* the clock reading Date.now() is the number of the call
SpawnPawn(agentId, name) ==
    LET IdleUnbound(p) == p.state = "idle" /\ p.agentSessionId = NoSession
        idlePawn == FirstIndex({i \in 1..Len(pawns) : IdleUnbound(pawns[i])})
        pawn == [id |-> "pawn-" \o ToString(calls + 1), name |-> name,
                 factionColor |-> nextFactionColor(pawns), mood |-> "neutral",
                 totalTasks |-> 0, lifetimeEfficiency |-> 0, state |-> "walking",
                 assignedPlot |-> NoPlot, agentSessionId |-> agentId,
                 inventory |-> <<>>]
    IN  /\ IF idlePawn # 0
           THEN /\ name = pawns[idlePawn].name
                /\ pawns' = [pawns EXCEPT ![idlePawn].agentSessionId = agentId,
                                          ![idlePawn].state = "walking"]
           ELSE /\ name \in generateName(pawns)
                /\ pawns' = Append(pawns, pawn)
        /\ last' = [op |-> "spawnPawn", agentId |-> agentId,
                    pawn |-> IF idlePawn # 0 THEN idlePawn ELSE Len(pawns) + 1,
                    reused |-> idlePawn # 0]
        /\ Called
        /\ UNCHANGED <<invVars, plots, economy, stats, storehouse, seasonAge, timers,
                       appended>>

\* the callbacks without their guards
FireTimerUnguarded(k) ==
    LET t == timers[k]
    IN  /\ k \in 1..Len(timers)
        /\ t.remaining = 0
        /\ \A j \in 1..(k - 1) : timers[j].kind # t.kind
        /\ pawns' =
              IF t.kind = "unbind"
              THEN [pawns EXCEPT ![t.pawn].agentSessionId = NoSession,
                                 ![t.pawn].state = "idle",
                                 ![t.pawn].assignedPlot = NoPlot]
              ELSE [pawns EXCEPT ![t.pawn].assignedPlot = NoPlot,
                                 ![t.pawn].state = "idle"]
        /\ timers' = RemoveAt(timers, k)
        /\ last' = [op |-> "timer", kind |-> t.kind, pawn |-> t.pawn,
                    session |-> t.session, plot |-> t.plot,
                    applied |-> pawns' # pawns]
        /\ UNCHANGED <<invVars, plots, economy, stats, storehouse, seasonAge, appended,
                       calls>>

\* the unbind callback without its pawn.assignedPlot = undefined
FireTimerKeepPlot(k) ==
    LET t == timers[k]
        p == pawns[t.pawn]
    IN  /\ k \in 1..Len(timers)
        /\ t.remaining = 0
        /\ \A j \in 1..(k - 1) : timers[j].kind # t.kind
        /\ pawns' =
              IF t.kind = "unbind"
              THEN IF p.agentSessionId = t.session
                   THEN [pawns EXCEPT ![t.pawn].agentSessionId = NoSession,
                                      ![t.pawn].state = "idle"]
                   ELSE pawns
              ELSE IF p.assignedPlot = t.plot
                   THEN [pawns EXCEPT ![t.pawn].assignedPlot = NoPlot,
                                      ![t.pawn].state = "idle"]
                   ELSE pawns
        /\ timers' = RemoveAt(timers, k)
        /\ last' = [op |-> "timer", kind |-> t.kind, pawn |-> t.pawn,
                    session |-> t.session, plot |-> t.plot,
                    applied |-> pawns' # pawns]
        /\ UNCHANGED <<invVars, plots, economy, stats, storehouse, seasonAge, appended,
                       calls>>

\* a setTimeout callback runs: the first due timer of its delay
FireTimer(k) ==
    LET t == timers[k]
        p == pawns[t.pawn]
    IN  /\ k \in 1..Len(timers)
        /\ t.remaining = 0
        /\ \A j \in 1..(k - 1) : timers[j].kind # t.kind
        /\ pawns' =
              IF t.kind = "unbind"
              THEN IF p.agentSessionId = t.session
                   THEN [pawns EXCEPT ![t.pawn].agentSessionId = NoSession,
                                      ![t.pawn].state = "idle",
                                      ![t.pawn].assignedPlot = NoPlot]
                   ELSE pawns
              ELSE IF p.assignedPlot = t.plot
                   THEN [pawns EXCEPT ![t.pawn].assignedPlot = NoPlot,
                                      ![t.pawn].state = "idle"]
                   ELSE pawns
        /\ timers' = RemoveAt(timers, k)
        /\ last' = [op |-> "timer", kind |-> t.kind, pawn |-> t.pawn,
                    session |-> t.session, plot |-> t.plot,
                    applied |-> pawns' # pawns]
        /\ UNCHANGED <<invVars, plots, economy, stats, storehouse, seasonAge, appended,
                       calls>>

\* a second passes with no timer due
Tick ==
    /\ timers # <<>>
    /\ \A k \in 1..Len(timers) : timers[k].remaining > 0
    /\ timers' = [k \in 1..Len(timers) |-> [timers[k] EXCEPT !.remaining = @ - 1]]
    /\ last' = [op |-> "tick"]
    /\ UNCHANGED <<invVars, plots, pawns, economy, stats, storehouse, seasonAge,
                   appended, calls>>

\* a day passes
DayPasses ==
    /\ seasonAge' = seasonAge + 1
    /\ last' = [op |-> "day"]
    /\ Called
    /\ UNCHANGED <<invVars, plots, pawns, economy, stats, storehouse, timers, appended>>

(***************************************************************************)
(* Bounds and input sets                                                   *)
(***************************************************************************)
MaxSlots == 2

\* item ids handed to the inventory operations: two registered ids with a
\* maxStack of 16 and one id the registry does not hold
InvItems == {"appletree_seed", "pumpkin", "mystery_box"}

\* quantities: below, at and above one stack's room, and above two stacks
Quantities == {1, 15, 17, 33}

SlotLimits == 0..MaxSlots

Stack(itemId, quantity) ==
    [itemId |-> itemId, quantity |-> quantity, maxStack |-> getItem(itemId).maxStack]

\* the stacks an initial inventory is made of: nearly empty or full
InitStacks ==
    {Stack(id, q) : id \in {"appletree_seed", "pumpkin"}, q \in {2, 16}}

RECURSIVE SeqsUpTo(_, _)
\* the sequences over S of length at most n
SeqsUpTo(S, n) ==
    IF n = 0 THEN {<<>>}
    ELSE LET shorter == SeqsUpTo(S, n - 1)
         IN  shorter \cup {Append(q, x) : q \in shorter, x \in S}

InitInventories == SeqsUpTo(InitStacks, MaxSlots)

(***************************************************************************)
(* InventoryManager called on its own: invA and invB                       *)
(***************************************************************************)
EmptyFarm ==
    /\ plots = <<>>
    /\ pawns = <<>>
    /\ economy = [seeds |-> 25, totalEarned |-> 0, totalSpent |-> 0]
    /\ stats = [totalTasksCompleted |-> 0, taskHistory |-> <<>>,
                lifetimeEfficiency |-> 0, currentSeason |-> "spring",
                daysSinceStart |-> 0]
    /\ storehouse = [inventory |-> <<>>, capacity |-> 256]
    /\ seasonAge = 0
    /\ timers = <<>>
    /\ appended = <<>>
    /\ calls = 0

AddItem(itemId, quantity, maxSlots) ==
    LET result == addItem(invA, itemId, quantity, maxSlots)
    IN  /\ invA' = result.inv
        /\ last' = [op |-> "addItem", success |-> result.success]
        /\ UNCHANGED <<invB, farmVars, calls>>

RemoveItem(itemId, quantity) ==
    LET result == removeItem(invA, itemId, quantity)
    IN  /\ invA' = result.inv
        /\ last' = [op |-> "removeItem", success |-> result.success]
        /\ UNCHANGED <<invB, farmVars, calls>>

InitInv ==
    /\ invA \in InitInventories
    /\ invB = <<>>
    /\ last = [op |-> "init"]
    /\ EmptyFarm

NextInv ==
    \/ \E id \in InvItems, q \in Quantities, slots \in SlotLimits : AddItem(id, q, slots)
    \/ \E id \in InvItems, q \in Quantities : RemoveItem(id, q)

SpecInv == InitInv /\ [][NextInv]_vars

\* addItem(invA, id, q, slots) followed immediately by removeItem(invA, id, q)
AddThenRemove(itemId, quantity, maxSlots) ==
    LET added   == addItem(invA, itemId, quantity, maxSlots)
        removed == removeItem(added.inv, itemId, quantity)
    IN  /\ last.op = "init"
        /\ invA' = removed.inv
        /\ last' = [op |-> "addThenRemove", itemId |-> itemId, quantity |-> quantity,
                    maxSlots |-> maxSlots, success |-> added.success,
                    processed |-> added.processed, overflow |-> added.overflow]
        /\ UNCHANGED <<invB, farmVars, calls>>

\* transfer(invA, invB, itemId, quantity, toMaxSlots)
Transfer(itemId, quantity, toMaxSlots) ==
    LET result == transfer(invA, invB, itemId, quantity, toMaxSlots)
    IN  /\ last.op = "init"
        /\ invA' = result.from
        /\ invB' = result.to
        /\ last' = [op |-> "transfer", itemId |-> itemId, quantity |-> quantity,
                    maxSlots |-> toMaxSlots, success |-> result.success,
                    processed |-> result.processed, overflow |-> result.overflow]
        /\ UNCHANGED <<farmVars, calls>>

InitXfer ==
    /\ invA \in InitInventories
    /\ invB \in InitInventories
    /\ last = [op |-> "init"]
    /\ EmptyFarm

NextXfer ==
    \/ \E id \in InvItems, q \in Quantities, slots \in SlotLimits :
           AddThenRemove(id, q, slots)
    \/ \E id \in InvItems, q \in Quantities \cup {0}, slots \in SlotLimits :
           Transfer(id, q, slots)

SpecXfer == InitXfer /\ [][NextXfer]_vars

(***************************************************************************)
(* EfficiencyScorer.score called on its own, on a history held in          *)
(* stats.taskHistory                                                       *)
(***************************************************************************)
ScoreExtra == 1

\* history lengths: empty, around the cold-start size, and the full window
HistoryLens == {0, HistoryCap} \cup ((ColdStartSize - 1)..(ColdStartSize + ScoreExtra))

\* (duration ms, outputLength) of the records a history is made of; a
\* duration of 0 is filtered out by score, an outputLength of 0 reads as 100
SampleTasks == {<<0, 50>>, <<1000, 0>>, <<1000, 50>>, <<2000, 500>>, <<500, 400>>}

SampleRecord(task, k) ==
    [timestamp |-> k, agentId |-> NoSession, duration |-> task[1],
     outputLength |-> task[2], grade |-> "B", actionsEarned |-> gradeToActions("B")]

\* a history of n records: k of one kind, then n - k of another
MixedHistory(a, b, k, n) ==
    [i \in 1..n |-> IF i <= k THEN SampleRecord(a, i) ELSE SampleRecord(b, i)]

ScoreHistories ==
    {MixedHistory(a, b, k, n) :
        a \in SampleTasks, b \in SampleTasks, k \in {0, 3, 6}, n \in HistoryLens}

ScoreDurations == {0, 500, 1000, 4000}
ScoreLengths == {0, 1, 100, 400}

TaskResults ==
    [duration : ScoreDurations, outputLength : ScoreLengths, manual : BOOLEAN]

\* C < B < A < S
GradeRank(g) ==
    CASE g = "C" -> 1 [] g = "B" -> 2 [] g = "A" -> 3 [] g = "S" -> 4

\* score(result)
Score(result) ==
    /\ last.op = "init"
    /\ last' = [op |-> "score", result |-> result,
                grade |-> score(stats.taskHistory, result)]
    /\ UNCHANGED <<invVars, farmVars, calls>>

\* score(r1) and score(r2) on the same history
ScorePair(r1, r2) ==
    /\ last.op = "init"
    /\ last' = [op |-> "scorePair", r1 |-> r1, r2 |-> r2,
                g1 |-> score(stats.taskHistory, r1),
                g2 |-> score(stats.taskHistory, r2)]
    /\ UNCHANGED <<invVars, farmVars, calls>>

InitScore ==
    /\ invA = <<>> /\ invB = <<>>
    /\ plots = <<>>
    /\ pawns = <<>>
    /\ economy = [seeds |-> 25, totalEarned |-> 0, totalSpent |-> 0]
    /\ \E history \in ScoreHistories :
           stats = [totalTasksCompleted |-> Len(history), taskHistory |-> history,
                    lifetimeEfficiency |-> getCurrentEfficiency(history),
                    currentSeason |-> "spring", daysSinceStart |-> 0]
    /\ storehouse = [inventory |-> <<>>, capacity |-> 256]
    /\ seasonAge = 0
    /\ timers = <<>>
    /\ appended = <<>>
    /\ calls = 0
    /\ last = [op |-> "init"]

NextScore ==
    \/ \E result \in TaskResults : Score(result)
    \/ \E r1, r2 \in {r \in TaskResults : ~r.manual} : ScorePair(r1, r2)

SpecScore == InitScore /\ [][NextScore]_vars

(***************************************************************************)
(* FarmEngine states the specifications start from                         *)
(***************************************************************************)
Plot(x, y, type, crop, soilHealth) ==
    [x |-> x, y |-> y, type |-> type, crop |-> crop, soilHealth |-> soilHealth]

Pawn(id, name, factionColor, session, state, inventory) ==
    [id |-> id, name |-> name, factionColor |-> factionColor, mood |-> "neutral",
     totalTasks |-> 0, lifetimeEfficiency |-> 0, state |-> state,
     assignedPlot |-> NoPlot, agentSessionId |-> session, inventory |-> inventory]

Stats(history, season) ==
    [totalTasksCompleted |-> Len(history), taskHistory |-> history,
     lifetimeEfficiency |-> getCurrentEfficiency(history),
     currentSeason |-> season, daysSinceStart |-> 0]

DefaultEconomy == [seeds |-> 25, totalEarned |-> 0, totalSpent |-> 0]

Storehouse(inventory) == [inventory |-> inventory, capacity |-> 256]

\* a growing crop as plantCrop and the harvest of a regrowing crop leave it,
\* moved on to a stage below the last with tasks still to do
GrowingCrop(cropType, stage, tasks, quality) ==
    [NewCrop(cropType, quality) EXCEPT !.stage = stage, !.tasksUntilNextStage = tasks]

(***************************************************************************)
(* advanceCrops on its own, next to the handlers that call it              *)
(***************************************************************************)
MaxSteps == 3

\* steps: none, the steps a grade earns, and far more than any crop needs
StepCounts == (0..MaxSteps) \cup {100}

GrowCropTypes == {"turnip", "strawberry", "melon"}

GrowingCrops ==
    {GrowingCrop(t, stage, tasks, q) :
        t \in GrowCropTypes, stage \in {0, 2, 3}, tasks \in {1, 3}, q \in {"S", "B"}}

GrowPlots ==
    {<<Plot(2, 3, "planted", c, health), Plot(3, 3, "tilled", NoCrop, 80)>> :
        c \in GrowingCrops, health \in {40, 80}}

Rolls(ps) == [1..Len(ps) -> BOOLEAN]

\* advanceCrops(steps)
AdvanceCrops(steps, rolls) ==
    /\ plots' = advanceCrops(plots, steps, rolls)
    /\ last' = [op |-> "advanceCrops", steps |-> steps]
    /\ Called
    /\ UNCHANGED <<invVars, pawns, economy, stats, storehouse, seasonAge, timers,
                   appended>>

InitGrow ==
    /\ invA = <<>> /\ invB = <<>>
    /\ plots \in GrowPlots
    /\ pawns = <<>>
    /\ economy = DefaultEconomy
    /\ stats = Stats(<<>>, "spring")
    /\ storehouse = Storehouse(<<>>)
    /\ seasonAge = 0
    /\ timers = <<>>
    /\ appended = <<>>
    /\ calls = 0
    /\ last = [op |-> "init"]

MaxGrowCalls == 3

NextGrow ==
    /\ calls < MaxGrowCalls
    /\ \/ \E steps \in StepCounts, rolls \in Rolls(plots) : AdvanceCrops(steps, rolls)
       \/ \E rolls \in Rolls(plots) : OnGitEvent(rolls)
       \/ \E cropType \in GrowCropTypes : PlantCrop(3, 3, cropType)

SpecGrow == InitGrow /\ [][NextGrow]_vars

(***************************************************************************)
(* completeTask and addRecord on an engine with one pawn bound to a        *)
(* session and one tilled plot                                             *)
(***************************************************************************)
MaxTasks == 6

TaskAgents == {"a1"}
TaskDurations == {1000}
TaskLengths == {0, 400}

TaskPlots == <<Plot(2, 3, "tilled", NoCrop, 80)>>

TaskPawns == <<Pawn("pawn-1", "Ada", "blue", "a1", "walking", <<>>)>>

\* saved histories an engine is constructed on: empty, or at the window's edge
SavedHistories ==
    {MixedHistory(a, b, 3, n) :
        a \in {<<1000, 50>>}, b \in {<<2000, 500>>},
        n \in {0} \cup ((HistoryCap - 1)..HistoryCap)}

InitTasks(histories) ==
    /\ invA = <<>> /\ invB = <<>>
    /\ plots = TaskPlots
    /\ pawns = TaskPawns
    /\ economy = DefaultEconomy
    /\ \E history \in histories :
           /\ stats = [Stats(history, "spring") EXCEPT !.totalTasksCompleted = 0]
           /\ appended = history
    /\ storehouse = Storehouse(<<>>)
    /\ seasonAge = 0
    /\ timers = <<>>
    /\ calls = 0
    /\ last = [op |-> "init"]

CompleteSomeTask ==
    \E agentId \in TaskAgents, duration \in TaskDurations, outputLength \in TaskLengths,
       manual \in BOOLEAN, workPlot \in 0..Len(plots), rolls \in Rolls(plots) :
        CompleteTask(agentId, duration, outputLength, manual, workPlot, rolls)

TimerStep == (\E k \in 1..Len(timers) : FireTimer(k)) \/ Tick

InitHist == InitTasks(SavedHistories)

MaxHistCalls == 2

NextHist ==
    \/ calls < MaxHistCalls /\ CompleteSomeTask
    \/ /\ calls < MaxHistCalls
       /\ \E duration \in TaskDurations, outputLength \in {400}, grade \in {"S", "C"} :
              AddRecord(duration, outputLength, grade)
    \/ TimerStep

SpecHist == InitHist /\ [][NextHist]_vars

\* a new engine on the default state: completeTask is the only call made
InitFresh == InitTasks({<<>>})

NextFresh ==
    \/ calls < MaxTasks /\ CompleteSomeTask
    \/ TimerStep

SpecFresh == InitFresh /\ [][NextFresh]_vars

(***************************************************************************)
(* The inventory operations of FarmEngine on a pawn bag and a storehouse   *)
(* that are full or nearly full                                            *)
(***************************************************************************)
MaxStoreCalls == 2

\* n full stacks of an item no operation below names
Filler(n) == [i \in 1..n |-> Stack("yam", 64)]

\* the storehouse two stacks, one stack and no stack short of its capacity
StoreInventories ==
    {Filler(254) \o tail :
        tail \in {<<>>, <<Stack("turnip_seed", 3)>>,
                  <<Stack("turnip_seed", 3), Stack("turnip", 63)>>}}

\* the pawn's bag one stack short of its 5 slots, and full
BagInventories ==
    {<<Stack("turnip_seed", 64), Stack("turnip", 63), Stack("appletree_seed", 16),
       Stack("yam", 64)>> \o tail :
        tail \in {<<>>, <<Stack("corn_seed", 2)>>}}

\* a turnip one task from harvest and a tilled plot to plant on
StorePlots ==
    <<Plot(2, 3, "planted", GrowingCrop("turnip", 3, 1, "S"), 80),
      Plot(3, 3, "tilled", NoCrop, 80)>>

StorePawnIds == {"pawn-1", "pawn-9"}
StoreItems == {"turnip_seed", "turnip"}
StoreQuantities == {1, 200}

InitStore ==
    /\ invA = <<>> /\ invB = <<>>
    /\ plots = StorePlots
    /\ \E bag \in BagInventories :
           pawns = <<Pawn("pawn-1", "Ada", "blue", "a1", "walking", bag)>>
    /\ economy = DefaultEconomy
    /\ stats = Stats(<<>>, "spring")
    /\ \E inventory \in StoreInventories : storehouse = Storehouse(inventory)
    /\ seasonAge = 0
    /\ timers = <<>>
    /\ appended = <<>>
    /\ calls = 0
    /\ last = [op |-> "init"]

NextStore ==
    \/ /\ calls < MaxStoreCalls
       /\ \E pawnId \in StorePawnIds, itemId \in StoreItems, quantity \in StoreQuantities :
              \/ PawnPickup(pawnId, itemId, quantity)
              \/ PawnDeposit(pawnId, itemId, quantity)
              \/ TransferToStorehouse(pawnId, itemId, quantity)
              \/ WithdrawFromStorehouse(pawnId, itemId, quantity)
    \/ /\ calls < MaxStoreCalls
       /\ \E pawnId \in StorePawnIds :
              \/ PawnDepositAll(pawnId)
              \/ \E maxSeeds \in 1..2, amounts \in [1..2 -> {2, 4}] :
                     PawnWithdrawSeeds(pawnId, maxSeeds, amounts)
              \/ \E seedItemId \in {"", "turnip_seed", "corn_seed"} :
                     PawnPlantSeed(pawnId, 3, 3, seedItemId)
    \/ /\ calls < MaxStoreCalls
       /\ \E itemId \in StoreItems, quantity \in StoreQuantities :
              \/ AddToStorehouse(itemId, quantity)
              \/ RemoveFromStorehouse(itemId, quantity)
    \/ /\ calls < MaxStoreCalls
       /\ \/ \E workPlot \in 0..Len(plots), rolls \in Rolls(plots) :
                 CompleteTask("a1", 1000, 400, FALSE, workPlot, rolls)
          \/ \E rolls \in Rolls(plots) : OnGitEvent(rolls)
    \/ TimerStep

SpecStore == InitStore /\ [][NextStore]_vars

(***************************************************************************)
(* The public operations of FarmEngine on a farm loaded from a save: a     *)
(* tilled plot, two planted plots, a plot that is not farmland, a pawn     *)
(* bound to a session with a full bag, an idle pawn, and a few seeds in    *)
(* the storehouse                                                          *)
(***************************************************************************)
MaxFarmCalls == 2

\* one record of the given grade: the efficiency is 100, 67, 33 or 0
GradedHistory(grade) ==
    <<[SampleRecord(<<1000, 400>>, 1) EXCEPT !.grade = grade,
                                              !.actionsEarned = gradeToActions(grade)]>>

\* the save of a farm in spring: a turnip one task from harvest on worn soil
\* and a strawberry one task from harvest on rich soil
SpringPlots(soilHealth) ==
    <<Plot(2, 3, "tilled", NoCrop, soilHealth),
      Plot(3, 3, "planted", GrowingCrop("turnip", 3, 1, "S"), 5),
      Plot(4, 3, "planted", GrowingCrop("strawberry", 4, 1, "B"), 98),
      Plot(0, 0, "empty", NoCrop, 80)>>

\* an imported save of a farm in summer: a turnip, which fall keeps, and a
\* corn one task from harvest, which fall wilts
SummerPlots(soilHealth) ==
    <<Plot(2, 3, "tilled", NoCrop, soilHealth),
      Plot(3, 3, "planted", GrowingCrop("turnip", 1, 1, "A"), 98),
      Plot(4, 3, "planted", GrowingCrop("corn", 4, 1, "A"), 97),
      Plot(0, 0, "empty", NoCrop, 80)>>

FarmSave(ps, season, seeds, history, age) ==
    [plots |-> ps, season |-> season, seeds |-> seeds, history |-> history,
     seasonAge |-> age]

FarmSaves ==
    {FarmSave(SpringPlots(80), "spring", 25, <<>>, 0),
     FarmSave(SpringPlots(80), "spring", 1, GradedHistory("S"), 6),
     FarmSave(SpringPlots(3), "spring", 25, GradedHistory("A"), 6),
     FarmSave(SummerPlots(80), "summer", 25, GradedHistory("C"), 6),
     FarmSave(SummerPlots(3), "summer", 1, GradedHistory("B"), 0)}

\* a full bag: three kinds of seed, one of them of a species CROP_DATA lacks
FarmBag ==
    <<Stack("turnip_seed", 2), Stack("carrot_seed", 1), Stack("corn_seed", 1),
      Stack("yam", 64), Stack("turnip", 64)>>

FarmStore == <<Stack("potato_seed", 3), Stack("turnip_seed", 3)>>

\* the tilled plot, a planted plot, the plot that is not farmland, and
\* coordinates off the grid
FarmCoords == {<<2, 3>>, <<3, 3>>, <<0, 0>>, <<9, 9>>}
FarmCropTypes == {"turnip", "clover", "corn"}
FarmPawnIds == {"pawn-0", "pawn-9"}
FarmSeedArgs == {"", "turnip_seed", "carrot_seed", "corn_seed", "turnip"}
FarmItems == {"potato_seed", "yam"}
FarmQuantities == {1, 200}
FarmAgents == {"a1", "a2"}
FarmNames == {"Bob", "Cara"}

\* the golden rolls all lost, or all won
SameRolls(ps) == {[i \in 1..Len(ps) |-> roll] : roll \in BOOLEAN}

InitFarm ==
    /\ invA = <<>> /\ invB = <<>>
    /\ \E save \in FarmSaves :
           /\ plots = save.plots
           /\ economy = [DefaultEconomy EXCEPT !.seeds = save.seeds]
           /\ stats = Stats(save.history, save.season)
           /\ appended = save.history
           /\ seasonAge = save.seasonAge
    /\ pawns = <<Pawn("pawn-0", "Ada", "blue", "a1", "walking", FarmBag),
                 Pawn("pawn-1", "Bob", "red", NoSession, "idle", <<>>)>>
    /\ storehouse = Storehouse(FarmStore)
    /\ timers = <<>>
    /\ calls = 0
    /\ last = [op |-> "init"]

NextFarm ==
    \/ /\ calls < MaxFarmCalls
       /\ \E at \in FarmCoords :
              \/ \E cropType \in FarmCropTypes : PlantCrop(at[1], at[2], cropType)
              \/ \E pawnId \in FarmPawnIds, seedItemId \in FarmSeedArgs :
                     PawnPlantSeed(pawnId, at[1], at[2], seedItemId)
    \/ /\ calls < MaxFarmCalls
       /\ \/ \E workPlot \in 0..Len(plots), rolls \in SameRolls(plots) :
                 CompleteTask("a1", 1000, 400, FALSE, workPlot, rolls)
          \/ \E rolls \in SameRolls(plots) : OnGitEvent(rolls)
    \/ /\ calls < MaxFarmCalls
       /\ \/ UpdateSeason
          \/ DayPasses
          \/ \E agentId \in FarmAgents, name \in FarmNames : SpawnPawn(agentId, name)
    \/ /\ calls < MaxFarmCalls
       /\ \E pawnId \in FarmPawnIds :
              \/ \E itemId \in FarmItems, quantity \in FarmQuantities :
                     \/ TransferToStorehouse(pawnId, itemId, quantity)
                     \/ WithdrawFromStorehouse(pawnId, itemId, quantity)
              \/ \E maxSeeds \in 1..2, amounts \in [1..2 -> {2, 4}] :
                     PawnWithdrawSeeds(pawnId, maxSeeds, amounts)
    \/ TimerStep

SpecFarm == InitFarm /\ [][NextFarm]_vars

(***************************************************************************)
(* advanceCrops and processHarvests on their own, next to onGitEvent, on   *)
(* crops one task from harvest and a storehouse that is empty, full, or    *)
(* one unit short of full                                                  *)
(***************************************************************************)
MaxHarvestCalls == 2

\* soil at the edges of the harvest bonus and penalty
HarvestSoils == {5, 29, 30, 79, 80}

\* a crop with one task left before its last stage
RipeningCrop(cropType, quality) ==
    GrowingCrop(cropType, CROP_DATA[cropType].stages - 1, 1, quality)

HarvestPlots ==
    {<<Plot(2, 3, "planted", RipeningCrop(t, q), health),
       Plot(3, 3, "planted", RipeningCrop("strawberry", "B"), 80),
       Plot(4, 3, "planted", GrowingCrop("turnip", 0, 1, "S"), 80)>> :
        t \in {"turnip", "pumpkin"}, q \in Grades, health \in HarvestSoils}

\* every slot of the storehouse in use: no room at all, or room for one more
\* turnip in the last stack
HarvestStores ==
    {<<>>, Filler(256), Filler(255) \o <<Stack("turnip", 63)>>}

InitHarvest ==
    /\ invA = <<>> /\ invB = <<>>
    /\ plots \in HarvestPlots
    /\ pawns = <<>>
    /\ economy = DefaultEconomy
    /\ stats = Stats(<<>>, "spring")
    /\ \E inventory \in HarvestStores : storehouse = Storehouse(inventory)
    /\ seasonAge = 0
    /\ timers = <<>>
    /\ appended = <<>>
    /\ calls = 0
    /\ last = [op |-> "init"]

NextHarvest ==
    /\ calls < MaxHarvestCalls
    /\ \/ \E rolls \in Rolls(plots) : AdvanceCrops(1, rolls)
       \/ ProcessHarvests
       \/ \E rolls \in SameRolls(plots) : OnGitEvent(rolls)

SpecHarvest == InitHarvest /\ [][NextHarvest]_vars

(***************************************************************************)
(* The setTimeout callbacks of completeTask and plantCropFree, interleaved *)
(* with the operations that bind a pawn or send it to a plot               *)
(***************************************************************************)
MaxTimerCalls == 3

TimerPlots ==
    <<Plot(2, 3, "tilled", NoCrop, 80),
      Plot(3, 3, "tilled", NoCrop, 80),
      Plot(0, 0, "empty", NoCrop, 80)>>

\* the sessions of the agents; NoSession is the id of a missing agent
\* (agent?.id of undefined)
TimerSessions == {"a1", "a2", NoSession}
TimerAgents == {"a1", "a2"}
TimerNames == {"Ada", "Bob", "Cara"}
TimerPawnIds == {"pawn-0", "pawn-1"}
TimerCoords == {<<2, 3>>, <<3, 3>>}

InitTimers ==
    /\ invA = <<>> /\ invB = <<>>
    /\ plots = TimerPlots
    /\ economy = DefaultEconomy
    /\ stats = Stats(<<>>, "spring")
    /\ appended = <<>>
    /\ seasonAge = 0
    /\ pawns = <<Pawn("pawn-0", "Ada", "blue", "a1", "walking",
                      <<Stack("turnip_seed", 2)>>),
                 Pawn("pawn-1", "Bob", "red", NoSession, "idle",
                      <<Stack("turnip_seed", 2)>>)>>
    /\ storehouse = Storehouse(<<>>)
    /\ timers = <<>>
    /\ calls = 0
    /\ last = [op |-> "init"]

NextTimers ==
    \/ /\ calls < MaxTimerCalls
       /\ \E agentId \in TimerSessions, workPlot \in 0..Len(plots) :
              CompleteTask(agentId, 1000, 400, FALSE, workPlot,
                           [i \in 1..Len(plots) |-> FALSE])
    \/ /\ calls < MaxTimerCalls
       /\ \E agentId \in TimerAgents, name \in TimerNames : SpawnPawn(agentId, name)
    \/ /\ calls < MaxTimerCalls
       /\ \E pawnId \in TimerPawnIds, at \in TimerCoords :
              PawnPlantSeed(pawnId, at[1], at[2], "turnip_seed")
    \/ TimerStep

SpecTimers == InitTimers /\ [][NextTimers]_vars

\* the same, with the event loop running every scheduled callback
SpecTimersFair == SpecTimers /\ WF_vars(TimerStep)

(***************************************************************************)
(* spawnPawn on its own, from an empty pawn list and from the lists that   *)
(* earlier spawnPawn calls leave when the name pool is nearly used up      *)
(***************************************************************************)
MaxNameCalls == 3

factionColors == <<"blue", "red", "purple", "yellow">>

\* the pawns after n spawnPawn calls on an empty list that drew the names in
\* the order of the pool
SpawnedPawns(n) ==
    [k \in 1..n |-> Pawn("pawn-0" \o ToString(k), namePool[k],
                         factionColors[((k - 1) % 4) + 1],
                         "s" \o ToString(k), "walking", <<>>)]

SpawnedCounts == {0, 22, 23, 24}

\* the names spawnPawn can give: the pool and the generated names
SpawnNames ==
    {namePool[k] : k \in 1..Len(namePool)}
        \cup {"Pawn" \o ToString(k) : k \in 1..(Len(namePool) + MaxNameCalls)}

InitNames ==
    /\ invA = <<>> /\ invB = <<>>
    /\ plots = TimerPlots
    /\ economy = DefaultEconomy
    /\ stats = Stats(<<>>, "spring")
    /\ appended = <<>>
    /\ seasonAge = 0
    /\ \E n \in SpawnedCounts : pawns = SpawnedPawns(n)
    /\ storehouse = Storehouse(<<>>)
    /\ timers = <<>>
    /\ calls = 0
    /\ last = [op |-> "init"]

NextNames ==
    /\ calls < MaxNameCalls
    /\ \E name \in SpawnNames : SpawnPawn("a" \o ToString(calls + 1), name)

SpecNames == InitNames /\ [][NextNames]_vars

(***************************************************************************)
(* pawnWithdrawSeeds on storehouses with one, two and three kinds of seed, *)
(* one of them with two stacks of the same seed, and on a pawn bag that is *)
(* empty, nearly full and full                                             *)
(***************************************************************************)
MaxSeedCalls == 2

SeedStores ==
    {<<Stack("turnip_seed", 3), Stack("potato_seed", 1)>>,
     <<Stack("turnip_seed", 64), Stack("turnip_seed", 6)>>,
     <<Stack("yam", 5), Stack("corn_seed", 10), Stack("turnip_seed", 3),
       Stack("potato_seed", 5)>>,
     <<Stack("yam", 5)>>}

SeedBags ==
    {<<>>,
     <<Stack("yam", 64), Stack("turnip", 64), Stack("pumpkin", 16),
       Stack("corn_seed", 2)>>,
     <<Stack("yam", 64), Stack("turnip", 64), Stack("pumpkin", 16),
       Stack("corn", 64), Stack("turnip_seed", 63)>>}

SeedPawnIds == {"pawn-0", "pawn-9"}
SeedCounts == 1..3
SeedAmounts == 2..4

InitSeeds ==
    /\ invA = <<>> /\ invB = <<>>
    /\ plots = TimerPlots
    /\ \E bag \in SeedBags :
           pawns = <<Pawn("pawn-0", "Ada", "blue", NoSession, "idle", bag)>>
    /\ economy = DefaultEconomy
    /\ stats = Stats(<<>>, "spring")
    /\ \E inventory \in SeedStores : storehouse = Storehouse(inventory)
    /\ seasonAge = 0
    /\ timers = <<>>
    /\ appended = <<>>
    /\ calls = 0
    /\ last = [op |-> "init"]

NextSeeds ==
    /\ calls < MaxSeedCalls
    /\ \E pawnId \in SeedPawnIds, maxSeeds \in SeedCounts,
          amounts \in [SeedCounts -> SeedAmounts] :
              PawnWithdrawSeeds(pawnId, maxSeeds, amounts)

SpecSeeds == InitSeeds /\ [][NextSeeds]_vars

(***************************************************************************)
(* agent-tracker.ts, process-scanner.ts and extension.ts: the              *)
(* agent-completed events of the host and the handler activate() installs. *)
(* emit(name, payload) calls the listener with the arguments after the     *)
(* name: args is that list.                                                *)
(***************************************************************************)
MaxHostCalls == 3

NoExitCode == -1

\* estimateOutputLength(duration, exitCode), duration in whole seconds;
\* jitter is Math.random() * 50 after the rounding
estimateOutputLength(seconds, exitCode, jitter) ==
    IF exitCode \in {NoExitCode, 0}
    THEN Max(seconds, 1) * 120 + jitter
    ELSE Max(seconds, 1) * 80 + jitter

\* the payload completeSession emits
completeSessionEvent(sessionId, seconds, exitCode, jitter) ==
    [id |-> sessionId, duration |-> seconds * 1000, exitCode |-> exitCode,
     outputLength |-> estimateOutputLength(seconds, exitCode, jitter),
     success |-> exitCode \in {NoExitCode, 0}, manual |-> FALSE]

\* the payload ProcessScanner.reconcile emits and AgentTracker relays
scannerEvent(pid, seconds) ==
    [id |-> "proc-" \o ToString(pid), duration |-> seconds * 1000, exitCode |-> 0,
     outputLength |-> seconds * 100, success |-> TRUE, manual |-> FALSE]

\* the payload manualComplete(complexity) emits; Date.now() is the number
\* of the call
manualEvent(complexity) ==
    [id |-> "manual-" \o ToString(calls + 1),
     duration |-> CASE complexity = "small" -> 2000 [] complexity = "medium" -> 5000
                    [] OTHER -> 10000,
     exitCode |-> 0,
     outputLength |-> CASE complexity = "small" -> 50 [] complexity = "medium" -> 150
                        [] OTHER -> 300,
     success |-> TRUE, manual |-> TRUE]

\* the listener activate() registers: (agent, result) => { ... }.  A
\* parameter with no argument is undefined, and reading result.success of
\* undefined throws before completeTask is called.
OnAgentCompleted(args) ==
    IF Len(args) < 2
    THEN /\ last' = [op |-> "onAgentCompleted", threw |-> TRUE, event |-> args[1]]
         /\ Called
         /\ UNCHANGED <<invVars, plots, pawns, economy, stats, storehouse, seasonAge,
                        timers, appended>>
    ELSE \E workPlot \in 0..Len(plots) :
             CompleteTask(args[1].id, args[2].duration, args[2].outputLength,
                          args[2].manual, workPlot, [i \in 1..Len(plots) |-> FALSE])

\* this.emit('agent-completed', {...}) of completeSession
CompleteSession(sessionId, seconds, exitCode, jitter) ==
    OnAgentCompleted(<<completeSessionEvent(sessionId, seconds, exitCode, jitter)>>)

\* this.emit('agent-completed', result) of the process scanner's relay
ScannerCompleted(pid, seconds) ==
    OnAgentCompleted(<<scannerEvent(pid, seconds)>>)

\* this.emit('agent-completed', {...}) of manualComplete
ManualComplete(complexity) ==
    OnAgentCompleted(<<manualEvent(complexity)>>)

HostSessions == {"a1", "a2"}
HostPids == {100}
HostSeconds == {0, 5}
HostExitCodes == {NoExitCode, 0, 1}
HostJitter == {0, 50}
HostComplexities == {"small", "medium", "large"}

NextHost ==
    \/ /\ calls < MaxHostCalls
       /\ \E agentId \in HostSessions \cup {"proc-100"}, name \in TimerNames :
              SpawnPawn(agentId, name)
    \/ /\ calls < MaxHostCalls
       /\ \E sessionId \in HostSessions, seconds \in HostSeconds,
             exitCode \in HostExitCodes, jitter \in HostJitter :
                 CompleteSession(sessionId, seconds, exitCode, jitter)
    \/ /\ calls < MaxHostCalls
       /\ \E pid \in HostPids, seconds \in HostSeconds : ScannerCompleted(pid, seconds)
    \/ /\ calls < MaxHostCalls
       /\ \E complexity \in HostComplexities : ManualComplete(complexity)

SpecHost == InitTimers /\ [][NextHost]_vars

(***************************************************************************)
(* completeTask called many times in a row on a new engine, with one or    *)
(* the other of two task results                                           *)
(***************************************************************************)
MaxRowTasks == 15

\* {duration, outputLength} of the tasks
RowResults == {<<5000, 100>>, <<1000, 400>>}

NextRow ==
    /\ calls < MaxRowTasks
    /\ \E result \in RowResults, workPlot \in 0..Len(plots) :
           CompleteTask("a1", result[1], result[2], FALSE, workPlot,
                        [i \in 1..Len(plots) |-> FALSE])

SpecRow == InitFresh /\ [][NextRow]_vars

(***************************************************************************)
(* updateSeason as the days pass, in each of the four seasons, next to     *)
(* plantCrop and onGitEvent                                                *)
(***************************************************************************)
MaxSeasonCalls == 3

\* days since seasonStartDate: none, one short of a season, a season, more
\* than four seasons
SeasonAges == {0, 6, 7, 30}

\* a farm with a crop of the season (winter has none) and a tilled plot
SeasonPlots(season) ==
    <<Plot(2, 3, "tilled", NoCrop, 80),
      IF season = "winter" THEN Plot(3, 3, "tilled", NoCrop, 80)
      ELSE Plot(3, 3, "planted",
                GrowingCrop(CASE season = "spring" -> "potato"
                              [] season = "summer" -> "corn"
                              [] season = "fall" -> "turnip",
                            1, 1, "B"), 80)>>

InitSeason ==
    /\ invA = <<>> /\ invB = <<>>
    /\ \E k \in 1..4 :
           /\ plots = SeasonPlots(Seasons[k])
           /\ stats = Stats(<<>>, Seasons[k])
    /\ pawns = <<>>
    /\ economy = DefaultEconomy
    /\ storehouse = Storehouse(<<>>)
    /\ seasonAge \in SeasonAges
    /\ timers = <<>>
    /\ appended = <<>>
    /\ calls = 0
    /\ last = [op |-> "init"]

NextSeasonStep ==
    /\ calls < MaxSeasonCalls
    /\ \/ UpdateSeason
       \/ DayPasses
       \/ \E cropType \in {"turnip", "corn"} : PlantCrop(2, 3, cropType)
       \/ OnGitEvent([i \in 1..Len(plots) |-> FALSE])

SpecSeason == InitSeason /\ [][NextSeasonStep]_vars

(***************************************************************************)
(* completeTask with its auto-planting in each of the four seasons, on a   *)
(* tilled plot of rich or worn soil next to a crop one task from harvest,  *)
(* with and without an idle pawn                                           *)
(***************************************************************************)
MaxAutoCalls == 3

AutoSeasons == {"spring", "summer", "fall", "winter"}

\* the soil of the tilled plot: rich, just enough, and too worn to plant
AutoSoils == {80, 21, 20}

\* the state of the pawn without a session
AutoPawnStates == {"idle", "working"}

AutoSessions == {"a1", NoSession}
AutoNames == {"Ada", "Bob", "Cara"}

\* a tilled plot, then a crop of the season one task from harvest (in winter
\* a second tilled plot), then a plot that is not farmland
AutoPlots(season, soilHealth, cropSoil) ==
    <<Plot(2, 3, "tilled", NoCrop, soilHealth),
      CASE season = "spring" ->
               Plot(3, 3, "planted", GrowingCrop("turnip", 3, 1, "A"), cropSoil)
        [] season = "summer" ->
               Plot(3, 3, "planted", GrowingCrop("tomato", 4, 1, "A"), cropSoil)
        [] season = "fall" ->
               Plot(3, 3, "planted", GrowingCrop("yam", 3, 1, "A"), cropSoil)
        [] season = "winter" -> Plot(3, 3, "tilled", NoCrop, cropSoil),
      Plot(0, 0, "empty", NoCrop, 80)>>

InitAuto ==
    /\ invA = <<>> /\ invB = <<>>
    /\ \E season \in AutoSeasons, soilHealth \in AutoSoils, cropSoil \in {98, 5} :
           /\ plots = AutoPlots(season, soilHealth, cropSoil)
           /\ stats = Stats(<<>>, season)
    /\ economy = DefaultEconomy
    /\ appended = <<>>
    /\ seasonAge = 0
    /\ \E state \in AutoPawnStates :
           pawns = <<Pawn("pawn-0", "Ada", "blue", "a1", "walking", <<>>),
                     Pawn("pawn-1", "Bob", "red", NoSession, state, <<>>)>>
    /\ storehouse = Storehouse(<<>>)
    /\ timers = <<>>
    /\ calls = 0
    /\ last = [op |-> "init"]

NextAuto ==
    \/ /\ calls < MaxAutoCalls
       /\ \E agentId \in AutoSessions, workPlot \in 0..Len(plots),
             rolls \in SameRolls(plots) :
              CompleteTask(agentId, 1000, 400, FALSE, workPlot, rolls)
    \/ /\ calls < MaxAutoCalls
       /\ \E name \in AutoNames : SpawnPawn("a2", name)
    \/ TimerStep

SpecAuto == InitAuto /\ [][NextAuto]_vars

(***************************************************************************)
(* hasSpace asked about invB, next to the transfer that relies on it       *)
(***************************************************************************)
\* hasSpace(invB, itemId, quantity, maxSlots)
HasSpace(itemId, quantity, maxSlots) ==
    /\ last' = [op |-> "hasSpace", itemId |-> itemId, quantity |-> quantity,
                maxSlots |-> maxSlots,
                result |-> hasSpace(invB, itemId, quantity, maxSlots)]
    /\ UNCHANGED <<invA, invB, farmVars, calls>>

NextSpace ==
    \/ \E id \in InvItems, q \in Quantities \cup {0}, slots \in SlotLimits :
           HasSpace(id, q, slots)
    \/ \E id \in InvItems, q \in Quantities \cup {0}, slots \in SlotLimits :
           Transfer(id, q, slots)

SpecSpace == InitXfer /\ [][NextSpace]_vars

(***************************************************************************)
(* planting, tasks, git events and the change of season on a farm whose    *)
(* crops are all of the season                                             *)
(***************************************************************************)
MaxCropCalls == 3

CropSeedArgs == {"", "turnip_seed", "corn_seed"}
CropCoords == {<<2, 3>>, <<4, 3>>}

\* a tilled plot, a regrowing or one-harvest crop of the season one task from
\* harvest (winter has none), and a second tilled plot
CropPlots(season) ==
    <<Plot(2, 3, "tilled", NoCrop, 80),
      CASE season = "spring" ->
               Plot(3, 3, "planted", GrowingCrop("strawberry", 4, 1, "B"), 80)
        [] season = "summer" ->
               Plot(3, 3, "planted", GrowingCrop("tomato", 4, 1, "B"), 80)
        [] season = "fall" ->
               Plot(3, 3, "planted", GrowingCrop("turnip", 3, 1, "B"), 80)
        [] season = "winter" -> Plot(3, 3, "tilled", NoCrop, 80),
      Plot(4, 3, "tilled", NoCrop, 80)>>

InitCrops ==
    /\ invA = <<>> /\ invB = <<>>
    /\ \E k \in 1..4 :
           /\ plots = CropPlots(Seasons[k])
           /\ stats = Stats(<<>>, Seasons[k])
    /\ pawns = <<Pawn("pawn-0", "Ada", "blue", "a1", "walking",
                      <<Stack("corn_seed", 1), Stack("turnip_seed", 2)>>),
                 Pawn("pawn-1", "Bob", "red", NoSession, "idle", <<>>)>>
    /\ economy = DefaultEconomy
    /\ storehouse = Storehouse(<<>>)
    /\ seasonAge \in {0, 7}
    /\ timers = <<>>
    /\ appended = <<>>
    /\ calls = 0
    /\ last = [op |-> "init"]

NextCrops ==
    \/ /\ calls < MaxCropCalls
       /\ \/ UpdateSeason
          \/ DayPasses
    \/ /\ calls < MaxCropCalls
       /\ \E at \in CropCoords :
              \/ \E cropType \in {"turnip", "corn"} : PlantCrop(at[1], at[2], cropType)
              \/ \E seedItemId \in CropSeedArgs :
                     PawnPlantSeed("pawn-0", at[1], at[2], seedItemId)
    \/ /\ calls < MaxCropCalls
       /\ \/ \E workPlot \in 0..Len(plots) :
                 CompleteTask("a1", 1000, 400, FALSE, workPlot,
                              [i \in 1..Len(plots) |-> FALSE])
          \/ OnGitEvent([i \in 1..Len(plots) |-> FALSE])
    \/ TimerStep

SpecCrops == InitCrops /\ [][NextCrops]_vars

(***************************************************************************)
(* Properties of InventoryManager                                          *)
(***************************************************************************)
WellStacked(inv) ==
    \A i \in 1..Len(inv) : 0 < inv[i].quantity /\ inv[i].quantity <= inv[i].maxStack

\* every item id that a count can differ on
AllItemIds == DOMAIN ITEM_REGISTRY \cup InvItems

\* C1: after any sequence of addItem and removeItem calls every stack of the
\* inventory has 0 < quantity <= maxStack; no stack of quantity 0 stays.
C1_StacksStayWithinBounds == WellStacked(invA)

\* C1 witness: an addItem that could not place everything has just run and
\* left a full stack next to a partly filled one.
C1_Witness ==
    /\ last.op = "addItem" /\ ~last.success
    /\ \E i, j \in 1..Len(invA) :
           /\ invA[i].quantity = invA[i].maxStack
           /\ invA[j].quantity < invA[j].maxStack

C3_FailedTransferChangesNothing ==
    [][last'.op = "transfer" /\ ~last'.success =>
          /\ invA' = invA
          /\ invB' = invB
          /\ getCount(invA', last'.itemId) + getCount(invB', last'.itemId)
                 = getCount(invA, last'.itemId) + getCount(invB, last'.itemId)]_vars

\* C3 witness: a transfer failed for lack of room although the source holds
\* the item and the destination has a stack of it that is not full.
C3_Witness ==
    /\ last.op = "transfer" /\ ~last.success
    /\ getCount(invA, last.itemId) > 0
    /\ \E i \in 1..Len(invB) :
           invB[i].itemId = last.itemId /\ invB[i].quantity < invB[i].maxStack

\* C4: a transfer that returns success:true moved exactly
\* m = min(quantity, getCount(from, item)) units from `from` to `to`, returns
\* processed = m and overflow = quantity - m, and leaves the count of every
\* other item id in both inventories unchanged.
C4_TransferMovesClampedQuantity ==
    [][last'.op = "transfer" /\ last'.success =>
          LET id == last'.itemId
              m  == Min(last'.quantity, getCount(invA, id))
          IN  /\ getCount(invA', id) = getCount(invA, id) - m
              /\ getCount(invB', id) = getCount(invB, id) + m
              /\ last'.processed = m
              /\ last'.overflow = last'.quantity - m
              /\ \A other \in AllItemIds \ {id} :
                     /\ getCount(invA', other) = getCount(invA, other)
                     /\ getCount(invB', other) = getCount(invB, other)]_vars

\* C4 witness: a successful transfer that was clamped to the source's stock
\* and landed next to a stack of another item in the destination.
C4_Witness ==
    /\ last.op = "transfer" /\ last.success
    /\ last.overflow > 0 /\ last.processed > 1
    /\ Len(invB) = 2 /\ invB[1].itemId # last.itemId
    /\ invA # <<>>

(***************************************************************************)
(* Properties of EfficiencyScorer.score                                    *)
(***************************************************************************)
\* C6: score returns B for every input while the history holds fewer than 10
\* records, and B for every input with manual:true whatever the history.
C6_ColdStartAndManualGradeB ==
    last.op = "score" /\ (Len(stats.taskHistory) < 10 \/ last.result.manual)
        => last.grade = "B"

\* C6 witness: a non-manual result scored B on 9 records that would score S
\* on the same history with one more record.
C6_Witness ==
    /\ last.op = "score" /\ ~last.result.manual
    /\ Len(stats.taskHistory) = 9
    /\ last.grade = "B"
    /\ score(Append(stats.taskHistory, stats.taskHistory[1]), last.result) = "S"

\* the output density outputLength / max(durationSeconds, 1) of r1 is strictly
\* higher than that of r2 (durations in milliseconds)
DenserThan(r1, r2) ==
    r1.outputLength * Max(r2.duration, 1000) > r2.outputLength * Max(r1.duration, 1000)

\* C7 as stated: on a history of at least 10 records, a non-manual result of
\* strictly higher output density outputLength / max(durationSeconds, 1) never
\* gets a lower grade, for every outputLength >= 0 including 0.
C7_GradeMonotoneInDensity ==
    /\ last.op = "scorePair"
    /\ Len(stats.taskHistory) >= 10
    /\ DenserThan(last.r1, last.r2)
    => GradeRank(last.g1) >= GradeRank(last.g2)

(***************************************************************************)
(* Properties of FarmEngine                                                *)
(***************************************************************************)
\* C10: after advanceCrops(steps), however large steps is, every crop's stage
\* is at most its maxStages; in every reachable state 0 <= stage <= maxStages.
C10_StageWithinMaxStages ==
    \A i \in 1..Len(plots) :
        plots[i].crop # NoCrop =>
            /\ 0 <= plots[i].crop.stage
            /\ plots[i].crop.stage <= plots[i].crop.maxStages

\* C10 witness: advanceCrops(100) has just run and left a crop at its last
\* stage with tasks owed far below zero.
C10_Witness ==
    /\ last.op = "advanceCrops" /\ last.steps = 100
    /\ \E i \in 1..Len(plots) :
           /\ plots[i].crop # NoCrop
           /\ plots[i].crop.stage = plots[i].crop.maxStages
           /\ plots[i].crop.tasksUntilNextStage < -50

IsSuffix(s, t) ==
    Len(s) <= Len(t) /\ s = SubSeq(t, Len(t) - Len(s) + 1, Len(t))

\* C8: from a history of at most 50 records, after any sequence of
\* completeTask and addRecord calls stats.taskHistory holds at most 50 records
\* and, eviction being oldest first, is a suffix of the records in the order
\* they were appended.
C8_HistoryBoundedFifo ==
    /\ Len(stats.taskHistory) <= 50
    /\ IsSuffix(stats.taskHistory, appended)

\* C8 witness: a completeTask on a full window has just evicted records.
C8_Witness ==
    /\ last.op = "completeTask"
    /\ Len(stats.taskHistory) = 50
    /\ Len(appended) >= 52
    /\ stats.taskHistory[50].timestamp = calls

\* C9 as stated: on an engine started with an empty history, after n
\* completeTask calls the history holds min(n, 50) records, one per task,
\* totalTasksCompleted is n, and each of the first 10 tasks is graded B.
C9_OneRecordPerTask ==
    /\ Len(stats.taskHistory) = Min(calls, 50)
    /\ \A i \in 1..Len(stats.taskHistory) :
           stats.taskHistory[i].timestamp = calls - Len(stats.taskHistory) + i
    /\ stats.totalTasksCompleted = calls
    /\ last.op = "completeTask" /\ calls <= 10 => last.grade = "B"

\* C5: from a state where every pawn inventory has at most 5 stacks and the
\* storehouse at most capacity stacks, after any sequence of the engine's
\* inventory operations, completeTask and onGitEvent every pawn inventory
\* still has at most 5 stacks and the storehouse at most capacity (256).
C5_CapacityBound ==
    /\ \A i \in 1..Len(pawns) : Len(pawns[i].inventory) <= 5
    /\ Len(storehouse.inventory) <= storehouse.capacity
    /\ storehouse.capacity = 256

\* C5 witness: a withdrawal has filled the pawn's fifth slot while a harvest
\* or deposit has filled the storehouse's last one.
C5_Witness ==
    /\ last.op \in {"withdrawFromStorehouse", "pawnWithdrawSeeds"} /\ last.ok
    /\ Len(pawns[1].inventory) = 5
    /\ Len(storehouse.inventory) = 256

(***************************************************************************)
(* Properties of the farm: plots, seasons, soil, planting                  *)
(***************************************************************************)
\* C11: in every state reached from a well-formed farm through plantCrop,
\* pawnPlantSeed, completeTask (advance, harvest, auto-plant), onGitEvent and
\* updateSeason, a plot has a crop if and only if its type is 'planted'.
C11_CropIffPlanted ==
    \A i \in 1..Len(plots) : (plots[i].crop # NoCrop) <=> (plots[i].type = "planted")

\* C11 witness: a completeTask has harvested a crop, leaving its plot tilled
\* and bare, and has auto-planted the tilled plot.
C11_Witness ==
    /\ last.op = "completeTask"
    /\ last.autoPlanted
    /\ \E i \in last.harvested : plots[i].type = "tilled" /\ plots[i].crop = NoCrop
    /\ plots[1].type = "planted" /\ plots[1].crop.stage = 0

\* C12: right after an updateSeason call that rotates the season, no plot
\* keeps a crop whose species is not valid in the new season; each wilted plot
\* has its crop cleared, its type 'tilled' and its soilHealth raised by 5,
\* capped at 100; every other plot is unchanged.
C12_SeasonWilting ==
    [][(last'.op = "updateSeason" /\ last'.rotated) =>
          /\ Len(plots') = Len(plots)
          /\ \A i \in 1..Len(plots) :
                /\ plots'[i].crop # NoCrop =>
                       stats'.currentSeason \in CROP_DATA[plots'[i].crop.type].seasons
                /\ IF /\ plots[i].crop # NoCrop
                      /\ stats'.currentSeason \notin CROP_DATA[plots[i].crop.type].seasons
                   THEN /\ plots'[i].crop = NoCrop
                        /\ plots'[i].type = "tilled"
                        /\ plots'[i].soilHealth = Min(100, plots[i].soilHealth + 5)
                        /\ plots'[i].x = plots[i].x /\ plots'[i].y = plots[i].y
                   ELSE plots'[i] = plots[i]]_vars

\* C12 witness: summer has turned to fall; the corn has wilted, its soil
\* capped at 100, and the turnip, which fall allows, still stands.
C12_Witness ==
    /\ last.op = "updateSeason" /\ last.rotated
    /\ stats.currentSeason = "fall"
    /\ plots[2].crop # NoCrop /\ plots[2].crop.type = "turnip"
    /\ plots[3].type = "tilled" /\ plots[3].crop = NoCrop /\ plots[3].soilHealth = 100

\* the plot a harvest left tilled is planted again by the same call
Replanted(before, after) ==
    CROP_DATA[before.crop.type].regrows = 0 /\ after.type = "planted"

\* C13: from plots with soilHealth in 0..100, after any sequence of harvests,
\* wiltings and plantings every soilHealth stays in 0..100, and each harvest
\* of a plot lowers its soilHealth by exactly min(10, soilHealth) (an
\* auto-planting of the harvested plot in the same completeTask takes its 5
\* after that).
C13_SoilHealthBounds ==
    /\ [](\A i \in 1..Len(plots) : plots[i].soilHealth \in 0..100)
    /\ [][last'.op \in {"completeTask", "onGitEvent"} =>
            \A i \in last'.harvested :
                LET harvested == plots[i].soilHealth - Min(10, plots[i].soilHealth)
                IN  /\ harvested >= 0
                    /\ plots'[i].soilHealth =
                          IF Replanted(plots[i], plots'[i])
                          THEN Max(0, harvested - 5) ELSE harvested]_vars

\* C13 witness: a harvest on soil below 10 has taken the soil to 0.
C13_Witness ==
    /\ last.op \in {"completeTask", "onGitEvent"}
    /\ \E i \in last.harvested : plots[i].soilHealth = 0 /\ plots[i].type = "tilled"

\* ceil(0.3 * baseSellValue)
SeedCost(cropType) == (3 * CROP_DATA[cropType].baseSellValue + 9) \div 10

\* C14: plantCrop(x, y, cropType) returns true exactly when the plot exists
\* and is 'tilled', cropType is in season and economy.seeds >= ceil(0.3 *
\* baseSellValue); on success seeds falls and totalSpent rises by that cost
\* and the plot is 'planted' with a crop at stage 0, maxStages the species'
\* stage count, isGolden false and quality S/A/B/C by the thresholds 80, 60,
\* 40 on the current efficiency.  With 25 seeds in spring,
\* plantCrop(2, 3, 'turnip') leaves 23 seeds and a crop of 4 stages.
C14_PlantCropContract ==
    [][last'.op = "plantCrop" =>
          LET at   == {i \in 1..Len(plots) :
                          plots[i].x = last'.x /\ plots[i].y = last'.y}
              cost == SeedCost(last'.cropType)
              eff  == getCurrentEfficiency(stats.taskHistory)
              pre  == /\ \E i \in at : plots[i].type = "tilled"
                      /\ stats.currentSeason \in CROP_DATA[last'.cropType].seasons
                      /\ economy.seeds >= cost
          IN  /\ last'.ok <=> pre
              /\ last'.ok =>
                    /\ economy'.seeds = economy.seeds - cost
                    /\ economy'.totalSpent = economy.totalSpent + cost
                    /\ economy'.totalEarned = economy.totalEarned
                    /\ \A i \in at :
                          /\ plots'[i].type = "planted"
                          /\ plots'[i].crop # NoCrop
                          /\ plots'[i].crop.type = last'.cropType
                          /\ plots'[i].crop.stage = 0
                          /\ plots'[i].crop.maxStages = CROP_DATA[last'.cropType].stages
                          /\ plots'[i].crop.isGolden = FALSE
                          /\ plots'[i].crop.quality =
                                (IF eff >= 80 THEN "S" ELSE IF eff >= 60 THEN "A"
                                 ELSE IF eff >= 40 THEN "B" ELSE "C")
              /\ (/\ last'.ok /\ economy.seeds = 25 /\ last'.cropType = "turnip") =>
                    /\ economy'.seeds = 23
                    /\ \A i \in at : plots'[i].crop.maxStages = 4]_vars

\* C14 witness: the scenario, plantCrop(2, 3, 'turnip') in spring with 25 seeds.
C14_Witness ==
    /\ last.op = "plantCrop" /\ last.ok
    /\ last.x = 2 /\ last.y = 3 /\ last.cropType = "turnip"
    /\ calls = 1
    /\ stats.currentSeason = "spring"
    /\ economy.seeds = 23 /\ economy.totalSpent = 2
    /\ plots[1].type = "planted" /\ plots[1].crop.stage = 0
    /\ plots[1].crop.maxStages = 4

\* C15: whenever plantCrop, pawnPlantSeed, transferToStorehouse,
\* withdrawFromStorehouse or pawnWithdrawSeeds returns false, the plots, the
\* economy, every pawn's state and inventory, the storehouse and the stats
\* are what they were before the call.
C15_FailureIsNoOp ==
    [][(/\ last'.op \in {"plantCrop", "pawnPlantSeed", "transferToStorehouse",
                          "withdrawFromStorehouse", "pawnWithdrawSeeds"}
        /\ ~last'.ok
        /\ last'.op = "pawnPlantSeed" => ~last'.threw) =>
          UNCHANGED <<plots, economy, pawns, storehouse, stats>>]_vars

\* C15 witness: pawnWithdrawSeeds found the pawn and seeds in the storehouse,
\* tried to move them, and returned false because the bag had no room.
C15_Witness ==
    /\ last.op = "pawnWithdrawSeeds" /\ ~last.ok
    /\ last.pawn # 0
    /\ Len(pawns[last.pawn].inventory) = PawnSlots
    /\ Len(AvailableSeeds(storehouse.inventory)) > 0

\* C16 as stated: no call of pawnPlantSeed ends in an exception, whatever
\* registered seed the pawn holds.
C16_NoOperationThrows ==
    last.op = "pawnPlantSeed" => ~last.threw

(***************************************************************************)
(* Properties of the harvest                                               *)
(***************************************************************************)
\* round(baseSellValue x quality multiplier x (3 if golden) x soil multiplier)
Payout(crop, soilHealth) ==
    LET quality == CASE crop.quality = "S" -> 15 [] crop.quality = "A" -> 12
                     [] crop.quality = "B" -> 10 [] crop.quality = "C" -> 7
        golden  == IF crop.isGolden THEN 3 ELSE 1
        soil    == IF soilHealth >= 80 THEN 12 ELSE IF soilHealth < 30 THEN 8 ELSE 10
    IN  (CROP_DATA[crop.type].baseSellValue * quality * golden * soil + 50) \div 100

RECURSIVE PayoutSum(_, _)
\* the payouts of the plots from index i on whose crop is at its last stage
PayoutSum(ps, i) ==
    IF i > Len(ps) THEN 0
    ELSE (IF ps[i].crop # NoCrop /\ ps[i].crop.stage >= ps[i].crop.maxStages
          THEN Payout(ps[i].crop, ps[i].soilHealth) ELSE 0)
         + PayoutSum(ps, i + 1)

\* C17: processHarvests raises economy.seeds and economy.totalEarned each by
\* exactly the sum, over the plots whose crop has stage >= maxStages, of the
\* rounded sell value at the plot's soilHealth before the harvest, and returns
\* that sum; an S-quality turnip that is not golden pays 9 on soil 80.
C17_HarvestPayout ==
    [][last'.op = "processHarvests" =>
          /\ economy'.seeds = economy.seeds + PayoutSum(plots, 1)
          /\ economy'.totalEarned = economy.totalEarned + PayoutSum(plots, 1)
          /\ economy'.totalSpent = economy.totalSpent
          /\ last'.seedsEarned = PayoutSum(plots, 1)
          /\ \A i \in last'.harvested :
                (/\ plots[i].crop.type = "turnip" /\ plots[i].crop.quality = "S"
                 /\ ~plots[i].crop.isGolden /\ plots[i].soilHealth = 80
                 /\ last'.harvested = {i}) => last'.seedsEarned = 9]_vars

\* C17 witness: processHarvests has just paid for two crops at once.
C17_Witness ==
    /\ last.op = "processHarvests"
    /\ Cardinality(last.harvested) = 2
    /\ last.seedsEarned > 0
    /\ economy.seeds = DefaultEconomy.seeds + last.seedsEarned
    /\ economy.totalEarned = last.seedsEarned

\* floor(max(1, (1 + quality bonus + soil bonus) x (1.5 if golden))), the
\* bonuses counted in halves
HarvestQuantity(crop, soilHealth) ==
    LET halves == 2 + (CASE crop.quality = "S" -> 2 [] crop.quality = "A" -> 1
                         [] OTHER -> 0)
                    + (IF soilHealth >= 80 THEN 1 ELSE IF soilHealth < 30 THEN -1 ELSE 0)
    IN  IF crop.isGolden THEN Max(1, (halves * 3) \div 4) ELSE Max(1, halves \div 2)

RECURSIVE DepositSum(_, _, _)
\* the quantity of itemId the plots from index i on yield at harvest
DepositSum(ps, i, itemId) ==
    IF i > Len(ps) THEN 0
    ELSE (IF /\ ps[i].crop # NoCrop /\ ps[i].crop.stage >= ps[i].crop.maxStages
             /\ cropToHarvestItem(ps[i].crop.type, ps[i].crop.isGolden) = itemId
          THEN HarvestQuantity(ps[i].crop, ps[i].soilHealth) ELSE 0)
         + DepositSum(ps, i + 1, itemId)

\* C18 as stated: for every crop processHarvests harvests, whatever the
\* storehouse holds, the storehouse count of the crop's harvest item rises by
\* exactly the harvest quantity, which is at least 1.
C18_HarvestDeposited ==
    [][last'.op = "processHarvests" =>
          \A i \in last'.harvested :
              LET itemId == cropToHarvestItem(plots[i].crop.type, plots[i].crop.isGolden)
              IN  /\ HarvestQuantity(plots[i].crop, plots[i].soilHealth) >= 1
                  /\ getCount(storehouse'.inventory, itemId) =
                         getCount(storehouse.inventory, itemId)
                         + DepositSum(plots, 1, itemId)]_vars


(***************************************************************************)
(* Properties of the deferred pawn mutations                               *)
(***************************************************************************)
\* the guard of the callback last' names, read in the state it fires in
TimerGuard ==
    IF last'.kind = "unbind"
    THEN pawns[last'.pawn].agentSessionId = last'.session
    ELSE pawns[last'.pawn].assignedPlot = last'.plot

\* C19: a setTimeout callback changes a pawn only if its guard holds when it
\* fires: the unbind callback of session s only if the pawn's agentSessionId
\* is still s (and then it clears agentSessionId and assignedPlot and sets
\* state idle), the auto-plant callback only if the pawn's assignedPlot is
\* still the captured plot.  A callback whose guard fails changes nothing of
\* the farm state, so a pawn bound to another session keeps its session.
C19_TimersAreGuarded ==
    [][last'.op = "timer" =>
          /\ UNCHANGED <<plots, economy, stats, storehouse, seasonAge, appended>>
          /\ \A j \in 1..Len(pawns) : j # last'.pawn => pawns'[j] = pawns[j]
          /\ Len(pawns') = Len(pawns)
          /\ ~TimerGuard => pawns' = pawns
          /\ TimerGuard /\ last'.kind = "unbind" =>
                 pawns'[last'.pawn] =
                     [pawns[last'.pawn] EXCEPT !.agentSessionId = NoSession,
                                               !.assignedPlot = NoPlot,
                                               !.state = "idle"]
          /\ \A j \in 1..Len(pawns) :
                 pawns[j].agentSessionId \notin {NoSession, last'.session}
                     => pawns'[j].agentSessionId = pawns[j].agentSessionId]_vars

\* the unbind callback of a session fired on a pawn that a later spawnPawn
\* had bound to another session, and left it bound
C19_Witness ==
    /\ last.op = "timer"
    /\ last.kind = "unbind"
    /\ ~last.applied
    /\ last.session # NoSession
    /\ pawns[last.pawn].agentSessionId \notin {NoSession, last.session}

\* a pawn that is unbound, idle and assigned to no plot
Freed(i) ==
    /\ i \in 1..Len(pawns)
    /\ pawns[i].agentSessionId = NoSession
    /\ pawns[i].assignedPlot = NoPlot
    /\ pawns[i].state = "idle"

\* C20: when completeTask(agent) finds a pawn bound to agent.id and the
\* scheduled callbacks eventually run, that pawn eventually has its
\* agentSessionId and assignedPlot cleared and its state idle, whatever
\* operations run during the delay.
C20_EventuallyUnbound ==
    \A i \in 1..(2 + MaxTimerCalls) :
        (last.op = "completeTask" /\ last.pawn = i) ~> Freed(i)

\* completeTask found a pawn bound to the session of its agent
C20_Witness ==
    /\ last.op = "completeTask"
    /\ last.pawn # 0
    /\ last.agentId # NoSession
    /\ \E k \in 1..Len(timers) :
           timers[k] = UnbindTimer(last.pawn, last.agentId)


(***************************************************************************)
(* Properties of the pawns                                                 *)
(***************************************************************************)
\* the pawns spawnPawn may reuse: idle and bound to no session
IdlePawns(pw) ==
    {i \in 1..Len(pw) : pw[i].state = "idle" /\ pw[i].agentSessionId = NoSession}

\* C21: spawnPawn(agent) appends a pawn if and only if no pawn is idle and
\* unbound; otherwise it binds agent.id to the first such pawn, sets its state
\* to walking and leaves the other pawns and the pawn count as they were.  The
\* returned pawn is bound to agent.id and walking, and a new pawn has an
\* empty inventory.
C21_SpawnPawnReuse ==
    [][last'.op = "spawnPawn" /\ calls' = calls + 1 =>
          LET idle == IdlePawns(pawns)
              r    == last'.pawn
          IN  /\ (Len(pawns') = Len(pawns) + 1) <=> (idle = {})
              /\ Len(pawns') \in {Len(pawns), Len(pawns) + 1}
              /\ idle # {} =>
                     /\ r \in idle /\ \A i \in idle : r <= i
                     /\ pawns' = [pawns EXCEPT ![r].agentSessionId = last'.agentId,
                                               ![r].state = "walking"]
              /\ idle = {} =>
                     /\ r = Len(pawns) + 1
                     /\ SubSeq(pawns', 1, Len(pawns)) = pawns
                     /\ pawns'[r].inventory = <<>>
              /\ pawns'[r].agentSessionId = last'.agentId
              /\ pawns'[r].state = "walking"]_vars

\* spawnPawn found no idle unbound pawn and appended a third one
C21_Witness ==
    /\ last.op = "spawnPawn"
    /\ ~last.reused
    /\ Len(pawns) = 3
    /\ pawns[3].agentSessionId = last.agentId
    /\ \E i \in 1..2 : pawns[i].agentSessionId = NoSession


\* C22: no two pawns are bound to the same agent session.
C22_OneToOneBinding ==
    \A i, j \in 1..Len(pawns) :
        (i # j /\ pawns[i].agentSessionId # NoSession)
            => pawns[i].agentSessionId # pawns[j].agentSessionId


\* C23: starting from an empty pawn list, after any number of spawnPawn
\* calls, more than the name pool holds included, no two pawns have the
\* same name.
C23_NamesUnique ==
    \A i, j \in 1..Len(pawns) : i # j => pawns[i].name # pawns[j].name

\* the pool was used up and two pawns got generated names
C23_Witness ==
    /\ last.op = "spawnPawn"
    /\ Len(pawns) = Len(namePool) + 2
    /\ pawns[Len(pawns)].name = "Pawn" \o ToString(Len(namePool) + 2)
    /\ pawns[Len(pawns) - 1].name = "Pawn" \o ToString(Len(namePool) + 1)


(***************************************************************************)
(* Properties of auto-planting and of the seed withdrawal                  *)
(***************************************************************************)
\* the crop auto-planting has just planted: the crop on the plot that the
\* auto-plant timer scheduled last names
AutoPlantedCrop ==
    plots[getPlot(plots, timers[Len(timers)].plot.x,
                  timers[Len(timers)].plot.y)].crop

\* C24: the crop performAutoPlanting plants is the cheapest of the crops
\* valid in the current season (the least baseSellValue), and turnip when
\* turnip is one of the cheapest.
C24_AutoPlantsCheapest ==
    (last.op = "completeTask" /\ last.autoPlanted) =>
        /\ isInSeason(AutoPlantedCrop.type, stats.currentSeason)
        /\ \A c \in CropTypes :
               isInSeason(c, stats.currentSeason) =>
                   /\ CROP_DATA[c].baseSellValue
                          >= CROP_DATA[AutoPlantedCrop.type].baseSellValue
                   /\ (c = "turnip" /\ CROP_DATA[c].baseSellValue
                                       = CROP_DATA[AutoPlantedCrop.type].baseSellValue)
                         => AutoPlantedCrop.type = "turnip"


\* the units of an item pawnWithdrawSeeds took out of the storehouse
SeedsTaken(itemId) ==
    getCount(storehouse.inventory, itemId) - getCount(storehouse'.inventory, itemId)

\* C25: pawnWithdrawSeeds(pawnId, N) moves seeds of at most N distinct seed
\* ids from the storehouse to the pawn; of each id it moves it moves between
\* 2 and 4 units, or the whole stock when the stock is below that; items that
\* are not seeds stay.  With exactly two seed stacks of different seeds in the
\* storehouse, room in the bag and N = 3 it moves seeds of both.
C25_WithdrawsTwoToFourOfEach ==
    [][last'.op = "pawnWithdrawSeeds" /\ calls' = calls + 1 =>
          LET moved == {itemId \in AllItemIds : SeedsTaken(itemId) # 0}
              seeds == AvailableSeeds(storehouse.inventory)
          IN  /\ moved \subseteq SeedIds
              /\ Cardinality(moved) <= last'.maxSeeds
              /\ \A itemId \in moved :
                     /\ \/ SeedsTaken(itemId) \in 2..4
                        \/ /\ SeedsTaken(itemId) = getCount(storehouse.inventory, itemId)
                           /\ SeedsTaken(itemId) < 2
                     /\ last'.pawn # 0
                     /\ getCount(pawns'[last'.pawn].inventory, itemId)
                            = getCount(pawns[last'.pawn].inventory, itemId)
                                  + SeedsTaken(itemId)
              /\ (/\ last'.pawn # 0
                  /\ pawns[last'.pawn].inventory = <<>>
                  /\ last'.maxSeeds = 3
                  /\ Len(seeds) = 2
                  /\ seeds[1].itemId # seeds[2].itemId)
                     => Cardinality(moved) = 2]_vars


(***************************************************************************)
(* Properties of the host's event handling                                 *)
(***************************************************************************)
\* C26: every agent-completed event of the AgentTracker results in exactly
\* one completeTask call, which receives the event's duration, outputLength
\* and manual fields, and the handler ends without an error.
C26_EventCompletesOneTask ==
    [][(calls' = calls + 1 /\ last'.op \in {"onAgentCompleted", "completeTask"}) =>
          /\ last'.op = "completeTask"
          /\ stats'.totalTasksCompleted = stats.totalTasksCompleted + 1]_vars


(***************************************************************************)
(* Properties of completeTask                                              *)
(***************************************************************************)
\* every task so far had the result {duration: 5000, outputLength: 100}
AllTasksAlike ==
    \A k \in 1..Len(appended) :
        appended[k].duration = 5000 /\ appended[k].outputLength = 100

\* C27: on a new engine with an empty history, when completeTask is called
\* 15 times in a row with the non-manual result {duration: 5000,
\* outputLength: 100}, the 11th to the 15th call return the same grade.  The
\* timestamp of a record is the number of the call that made it.
C27_GradeStabilises ==
    AllTasksAlike =>
        \A i, j \in 1..Len(appended) :
            (appended[i].timestamp \in 11..15 /\ appended[j].timestamp \in 11..15)
                => appended[i].grade = appended[j].grade

\* the 15th identical call has returned
C27_Witness ==
    /\ AllTasksAlike
    /\ calls = 15
    /\ last.op = "completeTask"
    /\ \E k \in 1..Len(appended) :
           appended[k].timestamp = 15 /\ appended[k].grade = last.grade
    /\ \E k \in 1..Len(appended) : appended[k].timestamp = 11


(***************************************************************************)
(* Properties of the crop life cycle                                       *)
(***************************************************************************)
\* C28: when processHarvests harvests a plot whose crop species regrows, the
\* plot stays planted with the same crop type and quality, the stage set to
\* maxStages - regrows (below maxStages), tasksUntilNextStage set to the
\* species' tasksPerStage and isGolden false; otherwise the crop is cleared
\* and the plot becomes tilled.  Each harvested plot is harvested once (its
\* soil degrades once), and the other plots stay as they are.
C28_HarvestLifecycle ==
    [][(last'.op = "processHarvests" /\ calls' = calls + 1) =>
          /\ last'.harvested = HarvestReady(plots)
          /\ Len(plots') = Len(plots)
          /\ \A i \in 1..Len(plots) :
                IF i \notin HarvestReady(plots) THEN plots'[i] = plots[i]
                ELSE /\ plots'[i].soilHealth = Max(0, plots[i].soilHealth - 10)
                     /\ IF CROP_DATA[plots[i].crop.type].regrows > 0
                        THEN /\ plots'[i].type = "planted"
                             /\ plots'[i].crop.type = plots[i].crop.type
                             /\ plots'[i].crop.quality = plots[i].crop.quality
                             /\ plots'[i].crop.maxStages = plots[i].crop.maxStages
                             /\ plots'[i].crop.stage =
                                    plots[i].crop.maxStages
                                        - CROP_DATA[plots[i].crop.type].regrows
                             /\ plots'[i].crop.stage < plots'[i].crop.maxStages
                             /\ plots'[i].crop.tasksUntilNextStage =
                                    CROP_DATA[plots[i].crop.type].tasksPerStage
                             /\ ~plots'[i].crop.isGolden
                        ELSE /\ plots'[i].crop = NoCrop
                             /\ plots'[i].type = "tilled"]_vars

\* processHarvests harvested a strawberry, which regrows, and a crop that
\* does not
C28_Witness ==
    /\ last.op = "processHarvests"
    /\ \E i, j \in last.harvested :
           /\ plots[i].type = "planted" /\ plots[i].crop.type = "strawberry"
           /\ plots[i].crop.stage = 4
           /\ plots[j].type = "tilled" /\ plots[j].crop = NoCrop


\* the golden rolls one advanceCrops(steps) call makes on plot i
RollsOnPlot(i, steps) ==
    IF plots[i].type = "planted" /\ plots[i].crop # NoCrop
    THEN GoldenRollCount([plots[i].crop EXCEPT !.tasksUntilNextStage = @ - steps],
                         IF plots[i].soilHealth < 50 THEN 1 ELSE 0)
    ELSE 0

\* C29: a crop is golden only if its quality is S and its stage is
\* maxStages.  One advanceCrops(steps) call makes the golden roll at most
\* once on a crop, and exactly when it takes an S crop from below maxStages
\* to maxStages, however many stages it crosses; a crop already at maxStages
\* is not rolled for again.  A crop that stays on its plot keeps its type and
\* its quality.
C29_GoldenEligibility ==
    /\ [](\A i \in 1..Len(plots) :
              (plots[i].crop # NoCrop /\ plots[i].crop.isGolden) =>
                  /\ plots[i].crop.quality = "S"
                  /\ plots[i].crop.stage = plots[i].crop.maxStages)
    /\ [][\A i \in 1..Len(plots) :
              /\ (plots[i].crop # NoCrop /\ plots'[i].crop # NoCrop) =>
                     /\ plots'[i].crop.quality = plots[i].crop.quality
                     /\ plots'[i].crop.type = plots[i].crop.type
              /\ (last'.op = "advanceCrops" /\ calls' = calls + 1) =>
                     /\ RollsOnPlot(i, last'.steps) <= 1
                     /\ RollsOnPlot(i, last'.steps) = 1 <=>
                            /\ plots[i].crop # NoCrop
                            /\ plots[i].crop.quality = "S"
                            /\ plots[i].crop.stage < plots[i].crop.maxStages
                            /\ plots'[i].crop.stage = plots'[i].crop.maxStages
                     /\ (plots'[i].crop # NoCrop /\ plots'[i].crop.isGolden
                             /\ ~plots[i].crop.isGolden)
                            => RollsOnPlot(i, last'.steps) = 1]_vars

\* one advanceCrops(100) call took an S melon from stage 0 through all four
\* stages, and the roll made it golden
C29_Witness ==
    /\ last.op = "advanceCrops"
    /\ last.steps = 100
    /\ calls = 1
    /\ plots[1].crop.type = "melon"
    /\ plots[1].crop.isGolden
    /\ plots[1].crop.stage = 4
    /\ plots[1].crop.tasksUntilNextStage = -93


\* pawn j differs from before at most by what auto-planting does to the idle
\* pawn it sends to a plot
OnlyAutoPlantTouched(j) ==
    \/ pawns'[j] = pawns[j]
    \/ /\ last'.autoPlanted
       /\ pawns[j].state = "idle" /\ pawns[j].agentSessionId = NoSession
       /\ pawns'[j] = [pawns[j] EXCEPT !.state = "walking",
                                       !.assignedPlot = pawns'[j].assignedPlot]

\* the pawn update of completeTask on pawn b for the grade returned
PawnUpdated(b) ==
    /\ pawns'[b].totalTasks = pawns[b].totalTasks + 1
    /\ pawns'[b].state = (IF last'.grade = "S" THEN "celebrating" ELSE "working")
    /\ pawns'[b].mood = (CASE last'.grade = "S" -> "ecstatic" [] last'.grade = "A" -> "happy"
                           [] last'.grade = "B" -> "neutral" [] last'.grade = "C" -> "tired")
    /\ pawns'[b].agentSessionId = pawns[b].agentSessionId
    /\ pawns'[b].name = pawns[b].name
    /\ pawns'[b].inventory = pawns[b].inventory

\* C30: completeTask returns actionsEarned 3, 2, 1, 1 for grade S, A, B, C
\* and moves every planted crop on by that many steps (a crop it does not
\* harvest has its counter lowered by the steps and recharged once per stage
\* gained).  If a pawn is bound to agent.id, that pawn and no other gets
\* totalTasks + 1, state celebrating for S and working otherwise, and the
\* mood of the grade; if no pawn is bound to agent.id, a missing agent id
\* included, the pawn update changes no pawn.
C30_CompleteTaskResult ==
    [][(last'.op = "completeTask" /\ calls' = calls + 1) =>
          LET bound == {j \in 1..Len(pawns) :
                           /\ last'.agentId # NoSession
                           /\ pawns[j].agentSessionId = last'.agentId}
          IN  /\ last'.actionsEarned =
                     (CASE last'.grade = "S" -> 3 [] last'.grade = "A" -> 2
                        [] last'.grade = "B" -> 1 [] last'.grade = "C" -> 1)
              /\ \A i \in 1..Len(plots) :
                     (plots[i].type = "planted" /\ i \notin last'.harvested) =>
                         /\ plots'[i].crop # NoCrop
                         /\ plots'[i].crop.stage >= plots[i].crop.stage
                         /\ plots'[i].crop.stage < plots'[i].crop.maxStages
                         /\ plots'[i].crop.tasksUntilNextStage =
                                plots[i].crop.tasksUntilNextStage - last'.actionsEarned
                                    + (plots'[i].crop.stage - plots[i].crop.stage)
                                          * (CROP_DATA[plots[i].crop.type].tasksPerStage
                                             + (IF plots[i].soilHealth < 50 THEN 1 ELSE 0))
              /\ Len(pawns') = Len(pawns)
              /\ bound # {} =>
                     \E b \in bound :
                         /\ last'.pawn = b
                         /\ PawnUpdated(b)
                         /\ \A j \in 1..Len(pawns) : j # b => OnlyAutoPlantTouched(j)
              /\ bound = {} =>
                     \A j \in 1..Len(pawns) : OnlyAutoPlantTouched(j)]_vars


(***************************************************************************)
(* Properties of the seasons                                               *)
(***************************************************************************)
\* the season after a season
Successor(season) ==
    CASE season = "spring" -> "summer" [] season = "summer" -> "fall"
      [] season = "fall" -> "winter" [] season = "winter" -> "spring"

\* C31: stats.currentSeason changes only in updateSeason, only when the days
\* since seasonStartDate are at least seasonLengthDays, and then to the next
\* season of spring, summer, fall, winter, spring: one season per call, with
\* seasonStartDate reset.  With fewer days, updateSeason changes nothing but
\* stats.daysSinceStart.
C31_SeasonRotation ==
    [][/\ stats'.currentSeason # stats.currentSeason =>
              /\ last'.op = "updateSeason"
              /\ seasonAge >= SeasonLengthDays
       /\ (last'.op = "updateSeason" /\ calls' = calls + 1) =>
              IF seasonAge >= SeasonLengthDays
              THEN /\ stats'.currentSeason = Successor(stats.currentSeason)
                   /\ seasonAge' = 0
                   /\ last'.rotated
              ELSE /\ stats' = [stats EXCEPT !.daysSinceStart = seasonAge]
                   /\ ~last'.rotated
                   /\ UNCHANGED <<plots, pawns, economy, storehouse, seasonAge,
                                  timers, appended>>]_vars

\* updateSeason has rotated winter into spring, 30 days after winter began
C31_Witness ==
    /\ last.op = "updateSeason"
    /\ last.rotated
    /\ stats.currentSeason = "spring"
    /\ stats.daysSinceStart = 30
    /\ seasonAge = 0


(***************************************************************************)
(* Properties of the factions                                              *)
(***************************************************************************)
\* the pawns of a colour
ColorCount(pw, color) == Cardinality({i \in 1..Len(pw) : pw[i].factionColor = color})

\* C32: a newly created pawn gets a faction colour that the fewest pawns
\* have, the earliest of blue, red, purple, yellow among equals; so, from an
\* empty pawn list, after any spawnPawn calls the pawn counts of two colours
\* differ by at most 1.
C32_FactionBalance ==
    /\ [](\A a, b \in 1..4 :
              ColorCount(pawns, factionColors[a])
                  <= ColorCount(pawns, factionColors[b]) + 1)
    /\ [][(last'.op = "spawnPawn" /\ calls' = calls + 1 /\ ~last'.reused) =>
              \E a \in 1..4 :
                  /\ pawns'[Len(pawns')].factionColor = factionColors[a]
                  /\ \A b \in 1..4 :
                         /\ ColorCount(pawns, factionColors[a])
                                <= ColorCount(pawns, factionColors[b])
                         /\ b < a => ColorCount(pawns, factionColors[b])
                                         > ColorCount(pawns, factionColors[a])]_vars

\* the 25th pawn: the four colours had six pawns each, and it is blue
C32_Witness ==
    /\ last.op = "spawnPawn"
    /\ ~last.reused
    /\ Len(pawns) = 25
    /\ pawns[25].factionColor = "blue"
    /\ ColorCount(pawns, "blue") = 7
    /\ ColorCount(pawns, "yellow") = 6


\* the farm inside a completeTask call when the crops have advanced and the
\* harvests are done, before performAutoPlanting
BeforeAutoPlanting(rolls) ==
    processHarvests(advanceCrops(plots, last'.actionsEarned, rolls), storehouse,
                    economy)

\* pawn j is idle and unbound when performAutoPlanting runs: it was so before
\* the call and it is not the pawn the call has just put to work
IdleForAutoPlanting(j) ==
    /\ pawns[j].state = "idle"
    /\ pawns[j].agentSessionId = NoSession
    /\ j # last'.pawn

\* C33: in one completeTask call performAutoPlanting plants at most one plot;
\* it plants only a plot that is tilled, without a crop and of soilHealth > 20
\* and only with a pawn that is idle and has no session; it leaves the
\* economy as the harvests left it, lowers the soilHealth of the plot by 5,
\* and plants nothing in a season in which no crop is valid.
C33_AutoPlantingFrame ==
    [][(last'.op = "completeTask" /\ calls' = calls + 1) =>
          \E rolls \in SameRolls(plots) :
              LET mid     == BeforeAutoPlanting(rolls)
                  changed == {i \in 1..Len(plots) : plots'[i] # mid.plots[i]}
              IN  /\ Len(plots') = Len(plots)
                  /\ Cardinality(changed) <= 1
                  /\ last'.autoPlanted <=> changed # {}
                  /\ economy' = mid.economy
                  /\ economy'.totalSpent = economy.totalSpent
                  /\ economy'.seeds - economy.seeds
                         = economy'.totalEarned - economy.totalEarned
                  /\ \A i \in changed :
                         /\ mid.plots[i].type = "tilled"
                         /\ mid.plots[i].crop = NoCrop
                         /\ mid.plots[i].soilHealth > 20
                         /\ plots'[i].type = "planted"
                         /\ plots'[i].crop # NoCrop
                         /\ isInSeason(plots'[i].crop.type, stats.currentSeason)
                         /\ plots'[i].soilHealth = mid.plots[i].soilHealth - 5
                         /\ plots'[i].x = mid.plots[i].x /\ plots'[i].y = mid.plots[i].y
                         /\ \E j \in 1..Len(pawns) :
                                /\ IdleForAutoPlanting(j)
                                /\ pawns'[j].state = "walking"
                                /\ pawns'[j].agentSessionId = NoSession
                                /\ pawns'[j].assignedPlot
                                       = [x |-> plots'[i].x, y |-> plots'[i].y]
                  /\ (\A j \in 1..Len(pawns) : ~IdleForAutoPlanting(j)) => changed = {}
                  /\ (\A c \in CropTypes : ~isInSeason(c, stats.currentSeason))
                         => changed = {}]_vars

\* a task harvested the turnip and auto-planting planted the plot it freed,
\* passing over the tilled plot whose soil is at 20
C33_Witness ==
    /\ last.op = "completeTask"
    /\ last.autoPlanted
    /\ last.harvested = {2}
    /\ plots[2].type = "planted" /\ plots[2].crop.stage = 0
    /\ plots[1].type = "tilled" /\ plots[1].soilHealth = 20
    /\ pawns[2].state = "walking" /\ pawns[2].agentSessionId = NoSession


(***************************************************************************)
(* Properties of hasSpace                                                  *)
(***************************************************************************)
\* C34: hasSpace(inv, id, q, slots) leaves inv as it is and returns true
\* exactly when addItem(inv, id, q, slots) on the same inventory succeeds; so
\* in transfer the add that follows a passed space check never fails and the
\* rollback is not reached.
C34_HasSpaceAgreesWithAddItem ==
    /\ [][last'.op = "hasSpace" =>
              /\ invB' = invB
              /\ last'.result = addItem(invB, last'.itemId, last'.quantity,
                                        last'.maxSlots).success]_vars
    /\ [][last'.op = "transfer" =>
              LET actualQuantity == Min(last'.quantity, getCount(invA, last'.itemId))
              IN  (/\ actualQuantity # 0
                   /\ hasSpace(invB, last'.itemId, actualQuantity, last'.maxSlots)
                   /\ removeItem(invA, last'.itemId, actualQuantity).success)
                      => /\ addItem(invB, last'.itemId, actualQuantity,
                                    last'.maxSlots).success
                         /\ last'.success]_vars

\* 17 units fit an inventory of two slots whose one stack holds 2 of 16: the
\* stack takes 14 and a new stack the other 3
C34_Witness ==
    /\ last.op = "hasSpace"
    /\ last.result
    /\ last.quantity = 17
    /\ last.maxSlots = 2
    /\ Len(invB) = 1
    /\ invB[1].itemId = last.itemId
    /\ invB[1].quantity = 2


(***************************************************************************)
(* Properties of the economy                                               *)
(***************************************************************************)
\* what economy.seeds would be without any earning or spending
SeedsAtStart(eco) == eco.seeds - eco.totalEarned + eco.totalSpent

\* C35: every operation keeps economy.seeds equal to the initial seeds plus
\* what totalEarned has grown by minus what totalSpent has grown by;
\* economy.seeds is never negative, and totalEarned and totalSpent never
\* decrease.
C35_EconomyConservation ==
    /\ [](economy.seeds >= 0)
    /\ [][/\ SeedsAtStart(economy') = SeedsAtStart(economy)
          /\ economy'.totalEarned >= economy.totalEarned
          /\ economy'.totalSpent >= economy.totalSpent]_vars

\* a harvest has paid in and a planting has paid out
C35_Witness ==
    /\ last.op = "plantCrop"
    /\ last.ok
    /\ economy.totalEarned > 0
    /\ economy.totalSpent > 0
    /\ economy.seeds = 1 + economy.totalEarned - economy.totalSpent


\* C36: after a completeTask or an onGitEvent call, and so in every state
\* between the operations of an engine that started without mature crops,
\* every planted crop has stage < maxStages and isGolden = false: a crop that
\* reaches maxStages is harvested within the same call.
C36_NoMatureCropSurvives ==
    \A i \in 1..Len(plots) :
        (plots[i].type = "planted" /\ plots[i].crop # NoCrop) =>
            /\ plots[i].crop.stage < plots[i].crop.maxStages
            /\ ~plots[i].crop.isGolden

\* one task ripened the turnip and the strawberry: the turnip is gone and the
\* strawberry is back at the stage it regrows from
C36_Witness ==
    /\ last.op = "completeTask"
    /\ last.harvested = {2, 3}
    /\ plots[2].crop = NoCrop
    /\ plots[3].type = "planted"
    /\ plots[3].crop.stage = 4
    /\ plots[3].crop.maxStages = 5


\* C37: on a farm that starts with every crop valid for stats.currentSeason,
\* after any plantCrop, pawnPlantSeed, completeTask, onGitEvent and
\* updateSeason calls every crop is of a species valid in the current season;
\* so no plot is planted in winter.
C37_CropsInSeason ==
    \A i \in 1..Len(plots) :
        /\ plots[i].crop # NoCrop =>
               isInSeason(plots[i].crop.type, stats.currentSeason)
        /\ stats.currentSeason = "winter" =>
               (plots[i].crop = NoCrop /\ plots[i].type # "planted")

\* winter came and took the turnip that the pawn had sown in fall
C37_Witness ==
    /\ last.op = "updateSeason"
    /\ last.rotated
    /\ stats.currentSeason = "winter"
    /\ getCount(pawns[1].inventory, "turnip_seed") = 1
    /\ pawns[1].assignedPlot = [x |-> 2, y |-> 3]
    /\ plots[1].type = "tilled"
    /\ plots[1].crop = NoCrop


(***************************************************************************)
(* Properties of the pawns without a session                               *)
(***************************************************************************)
\* pawn i has no session and is not idle
UnboundBusy(i) ==
    /\ i \in 1..Len(pawns)
    /\ pawns[i].agentSessionId = NoSession
    /\ pawns[i].state # "idle"

\* pawn i is idle
BackToIdle(i) == i \in 1..Len(pawns) /\ pawns[i].state = "idle"

\* C38: a pawn that has no agentSessionId and is not idle (walking after
\* auto-planting, working after pawnPlantSeed or after a task) reaches state
\* idle once the pending timers have fired, unless a further operation of the
\* engine comes first.
C38_UnboundReturnsToIdle ==
    \A i \in 1..(2 + MaxTimerCalls), n \in 0..MaxTimerCalls :
        (UnboundBusy(i) /\ calls = n) ~> (BackToIdle(i) \/ calls # n)

=============================================================================
